---------------------------- MODULE Spec2Model ----------------------------
(***************************************************************************)
(* A model of the FamEmu 6502 core: the processor of src/cpu/cpu.rs (its   *)
(* registers, status flags, stack, 0xFFFF-byte memory array, operand       *)
(* address resolution, every instruction handler and the fetch / decode /  *)
(* execute loop run_with_callback), the Bus of src/bus/mod.rs (work memory  *)
(* mirrors, peripheral window, program storage) and what the formatter of  *)
(* src/cpu/trace.rs reads off the processor.                               *)
(*                                                                         *)
(* A processor is a record; every handler is an operator from a processor  *)
(* record to the processor record the Rust method leaves behind.  A Rust   *)
(* panic (array index out of bounds, arithmetic overflow in a build with   *)
(* overflow checks, expect / todo!) sets the field panicked and stops the  *)
(* handler where the Rust code stops.                                       *)
(***************************************************************************)
EXTENDS Integers, Sequences, FiniteSets, TLC

VARIABLES
    register_a,        \* CPU.register_a : u8
    register_x,        \* CPU.register_x : u8
    register_y,        \* CPU.register_y : u8
    status,            \* CPU.status : CpuFlags, as its bits
    program_counter,   \* CPU.program_counter : u16
    stack_pointer,     \* CPU.stack_pointer : u8
    memory,            \* CPU.memory : [u8; 0xFFFF]; the non-zero bytes only
    run_state,         \* "running" | "halted" (BRK returned) | "panicked"
    overflow_checks,   \* the build: TRUE = arithmetic overflow panics (debug)
    observed,          \* what the callback of run_with_callback was handed
    hist,              \* per executed instruction: state before / after handler / after step
    stack_touched,     \* every address stack_push / stack_pop accessed so far
    bus,               \* a Bus: cpu_vram (the non-zero bytes only) and rom
    bus_log,           \* per Bus access: the call, what it returned, the Bus before and after
    calls              \* per call made on the CPU from outside the loop: the call, its
                       \* arguments, what it returned, the processor before and after

vars == << register_a, register_x, register_y, status, program_counter,
           stack_pointer, memory, run_state, overflow_checks, observed,
           hist, stack_touched, bus, bus_log, calls >>

\* The variables of the processor, which a Bus access leaves alone
cpu_vars == << register_a, register_x, register_y, status, program_counter,
               stack_pointer, memory, run_state, overflow_checks, observed,
               hist, stack_touched, calls >>

\* The variables of the Bus, which the processor of cpu.rs never touches
bus_vars == << bus, bus_log >>

-----------------------------------------------------------------------------
(* Machine integers *)

Byte == 0 .. 255
Word == 0 .. 65535

\* The outcome of an operation that panicked instead of returning a value.
PANIC == 0 - 1

\* u8::wrapping_add / wrapping_sub and the `as u8` truncation
wrap8(n) == n % 256

\* u16::wrapping_add and the `as u16` truncation
wrap16(n) == n % 65536

\* `x as i8` for a byte x
as_i8(x) == IF x >= 128 THEN x - 256 ELSE x

\* A u16 `+` / `+=`: panics when the build checks overflow, wraps otherwise.
checked_add_u16(checks, n) ==
    IF n > 65535 THEN (IF checks THEN PANIC ELSE n % 65536) ELSE n

RECURSIVE bitand(_, _)
bitand(a, b) ==
    IF a = 0 \/ b = 0 THEN 0
    ELSE (a % 2) * (b % 2) + 2 * bitand(a \div 2, b \div 2)

RECURSIVE bitxor(_, _)
bitxor(a, b) ==
    IF a = 0 THEN b
    ELSE IF b = 0 THEN a
    ELSE ((a + b) % 2) + 2 * bitxor(a \div 2, b \div 2)

bitor(a, b) == a + b - bitand(a, b)

-----------------------------------------------------------------------------
(* CpuFlags *)

CARRY             == 1
ZERO              == 2
INTERRUPT_DISABLE == 4
DECIMAL_MODE      == 8
BREAK             == 16
BREAK_2           == 32
OVERFLOW          == 64
NEGATIVE          == 128

\* CpuFlags::contains for a single flag
contains(bits, flag) == (bits \div flag) % 2 = 1

\* CpuFlags::insert
insert(bits, flag) == IF contains(bits, flag) THEN bits ELSE bits + flag

\* CpuFlags::remove
remove(bits, flag) == IF contains(bits, flag) THEN bits - flag ELSE bits

\* CpuFlags::from_bits_truncate: all eight bits are named flags
from_bits_truncate(b) == b % 256

STACK       == 256
STACK_RESET == 253

\* The length of CPU.memory, [u8; 0xFFFF]: indices 0 .. 0xFFFE
MEMORY_LEN == 65535

\* The fixed load address of CPU::load and the reset vector
LOAD_ADDR    == 1536
RESET_VECTOR == 65532

\* The power-on status of CPU::new and CPU::reset, 0b100100
POWER_ON_STATUS == 36

-----------------------------------------------------------------------------
(* The processor as a record *)

Panic(c) == [c EXCEPT !.panicked = TRUE]

\* impl Mem for CPU: self.memory[addr as usize]
mem_read(c, addr) ==
    IF addr \in 0 .. (MEMORY_LEN - 1)
    THEN (IF addr \in DOMAIN c.memory THEN c.memory[addr] ELSE 0)
    ELSE PANIC

\* The array with one byte stored (zero bytes are not kept in the function)
store(mem, addr, data) ==
    IF data = 0
    THEN [a \in (DOMAIN mem) \ {addr} |-> mem[a]]
    ELSE [a \in (DOMAIN mem) \cup {addr} |-> IF a = addr THEN data ELSE mem[a]]

\* impl Mem for CPU: self.memory[addr as usize] = data
mem_write(c, addr, data) ==
    IF c.panicked THEN c
    ELSE IF addr \in 0 .. (MEMORY_LEN - 1)
    THEN [c EXCEPT !.memory = store(c.memory, addr, data)]
    ELSE Panic(c)

\* Mem::mem_read_u16
mem_read_u16(c, pos) ==
    LET low  == mem_read(c, pos)
        nxt  == checked_add_u16(c.overflow_checks, pos + 1)
        high == IF nxt = PANIC THEN PANIC ELSE mem_read(c, nxt)
    IN  IF low = PANIC \/ high = PANIC THEN PANIC ELSE high * 256 + low

\* Mem::mem_write_u16
mem_write_u16(c, pos, data) ==
    LET high == data \div 256
        low  == data % 256
        c1   == mem_write(c, pos, low)
        nxt  == checked_add_u16(c.overflow_checks, pos + 1)
    IN  IF c1.panicked THEN c1
        ELSE IF nxt = PANIC THEN Panic(c1)
        ELSE mem_write(c1, nxt, high)

\* CPU::set_status
set_status(c, flag, statement) ==
    [c EXCEPT !.status = IF statement THEN insert(@, flag) ELSE remove(@, flag)]

\* CPU::update_zero_and_negative_flags
update_zero_and_negative_flags(c, result) ==
    set_status(set_status(c, ZERO, result = 0), NEGATIVE, result \div 128 = 1)

\* CPU::set_register_a
set_register_a(c, value) ==
    update_zero_and_negative_flags([c EXCEPT !.register_a = value], value)

-----------------------------------------------------------------------------
(* The stack *)

\* stack_push that decrements before it writes
stack_push_decrement_first(c, value) ==
    LET sp   == wrap8(c.stack_pointer + 255)
        addr == STACK + sp
        c1   == mem_write(c, addr, value)
    IN  [c1 EXCEPT !.stack_pointer = sp, !.touched = @ \cup {addr}]

\* CPU::stack_push: write at STACK + sp, then sp = sp.wrapping_sub(1)
stack_push(c, value) ==
    LET addr == STACK + c.stack_pointer
        c1   == mem_write(c, addr, value)
    IN  [c1 EXCEPT !.stack_pointer = wrap8(@ + 255),
                   !.touched = @ \cup {addr}]

\* stack_pop with a stack pointer that does not wrap at 0xFF
stack_pop_no_wrap(c) ==
    LET sp == c.stack_pointer + 1
    IN  [c EXCEPT !.stack_pointer = sp, !.touched = @ \cup {STACK + sp}]

\* CPU::stack_pop, the processor it leaves: sp = sp.wrapping_add(1), then read
stack_pop(c) ==
    LET sp == wrap8(c.stack_pointer + 1)
    IN  [c EXCEPT !.stack_pointer = sp, !.touched = @ \cup {STACK + sp}]

\* CPU::stack_pop, the byte it returns, read from the processor it leaves
popped(c) == mem_read(c, STACK + c.stack_pointer)

\* CPU::stack_push_u16: high byte first
stack_push_u16(c, value) ==
    LET high == value \div 256
        low  == value % 256
    IN  stack_push(stack_push(c, high), low)

\* CPU::stack_pop_u16, the processor it leaves
stack_pop_u16(c) == stack_pop(stack_pop(c))

\* CPU::stack_pop_u16, the word it returns: low byte first
popped_u16(c) ==
    LET low  == popped(stack_pop(c))
        high == popped(stack_pop(stack_pop(c)))
    IN  high * 256 + low

-----------------------------------------------------------------------------
(* The instruction descriptor table, opcodes::OPCODES_MAP: for every opcode *)
(* the run loop dispatches, its addressing mode and its length in bytes.    *)

ImmediateOps  == {\h69, \h29, \hC9, \hE0, \hC0, \h49, \hA9, \hA2, \hA0, \h09, \hE9}
ZeroPageOps   == {\h65, \h25, \h06, \h24, \hC5, \hE4, \hC4, \hC6, \h45, \hE6, \hA5,
                  \hA6, \hA4, \h46, \h05, \h26, \h66, \hE5, \h85, \h86, \h84}
ZeroPageXOps  == {\h75, \h35, \h16, \hD5, \hD6, \h55, \hF6, \hB5, \hB4, \h56, \h15,
                  \h36, \h76, \hF5, \h95, \h94}
ZeroPageYOps  == {\hB6, \h96}
AbsoluteOps   == {\h6D, \h2D, \h0E, \h2C, \hCD, \hEC, \hCC, \hCE, \h4D, \hEE, \hAD,
                  \hAE, \hAC, \h4E, \h0D, \h2E, \h6E, \hED, \h8D, \h8E, \h8C}
AbsoluteXOps  == {\h7D, \h3D, \h1E, \hDD, \hDE, \h5D, \hFE, \hBD, \hBC, \h5E, \h1D,
                  \h3E, \h7E, \hFD, \h9D}
AbsoluteYOps  == {\h79, \h39, \hD9, \h59, \hB9, \hBE, \h19, \hF9, \h99}
IndirectXOps  == {\h61, \h21, \hC1, \h41, \hA1, \h01, \hE1, \h81}
IndirectYOps  == {\h71, \h31, \hD1, \h51, \hB1, \h11, \hF1, \h91}
\* NoneAddressing: implied and accumulator forms (1 byte), branches (2), jumps and call (3)
ImpliedOps    == {\h00, \hEA, \h8A, \hAA, \hE8, \hCA, \hA8, \h98, \h88, \hC8, \h0A,
                  \h18, \h38, \h58, \h78, \hB8, \hD8, \hF8, \h4A, \h2A, \h6A, \h40,
                  \h60, \h9A, \hBA, \h48, \h68, \h08, \h28}
BranchOps     == {\h10, \h30, \h50, \h70, \h90, \hB0, \hD0, \hF0}
JumpOps       == {\h4C, \h6C, \h20}

\* The keys of OPCODES_MAP
OPCODES == ImmediateOps \cup ZeroPageOps \cup ZeroPageXOps \cup ZeroPageYOps
           \cup AbsoluteOps \cup AbsoluteXOps \cup AbsoluteYOps \cup IndirectXOps
           \cup IndirectYOps \cup ImpliedOps \cup BranchOps \cup JumpOps

\* OpCode.mode
OpMode(code) ==
    CASE code \in ImmediateOps -> "Immediate"
      [] code \in ZeroPageOps  -> "ZeroPage"
      [] code \in ZeroPageXOps -> "ZeroPage_X"
      [] code \in ZeroPageYOps -> "ZeroPage_Y"
      [] code \in AbsoluteOps  -> "Absolute"
      [] code \in AbsoluteXOps -> "Absolute_X"
      [] code \in AbsoluteYOps -> "Absolute_Y"
      [] code \in IndirectXOps -> "Indirect_X"
      [] code \in IndirectYOps -> "Indirect_Y"
      [] OTHER                 -> "NoneAddressing"

\* OpCode.len
OpLen(code) ==
    CASE code \in ImpliedOps -> 1
      [] code \in AbsoluteOps \cup AbsoluteXOps \cup AbsoluteYOps \cup JumpOps -> 3
      [] OTHER -> 2

-----------------------------------------------------------------------------
(* Operand address resolution, CPU::get_operand_address, one operator per   *)
(* arm of its match.  program_counter points at the first operand byte.     *)
(* The result is an address, or PANIC when a read on the way panicked.      *)

\* ZeroPage_X with an index addition that carries out of the zero page
zero_page_x_no_wrap(c) ==
    LET pos == mem_read(c, c.program_counter)
    IN  IF pos = PANIC THEN PANIC ELSE pos + c.register_x

zero_page_x(c) ==
    LET pos == mem_read(c, c.program_counter)
    IN  IF pos = PANIC THEN PANIC ELSE wrap8(pos + c.register_x)

zero_page_y(c) ==
    LET pos == mem_read(c, c.program_counter)
    IN  IF pos = PANIC THEN PANIC ELSE wrap8(pos + c.register_y)

absolute_x(c) ==
    LET base == mem_read_u16(c, c.program_counter)
    IN  IF base = PANIC THEN PANIC ELSE wrap16(base + c.register_x)

absolute_y(c) ==
    LET base == mem_read_u16(c, c.program_counter)
    IN  IF base = PANIC THEN PANIC ELSE wrap16(base + c.register_y)

indirect_x(c) ==
    LET base == mem_read(c, c.program_counter)
        ptr  == wrap8(base + c.register_x)
        low  == mem_read(c, ptr)
        high == mem_read(c, wrap8(ptr + 1))
    IN  IF base = PANIC THEN PANIC ELSE high * 256 + low

indirect_y(c) ==
    LET base       == mem_read(c, c.program_counter)
        low        == mem_read(c, base)
        high       == mem_read(c, wrap8(base + 1))
        deref_base == high * 256 + low
    IN  IF base = PANIC THEN PANIC ELSE wrap16(deref_base + c.register_y)

get_operand_address(c, mode) ==
    CASE mode = "Immediate"  -> c.program_counter
      [] mode = "ZeroPage"   -> mem_read(c, c.program_counter)
      [] mode = "Absolute"   -> mem_read_u16(c, c.program_counter)
      [] mode = "ZeroPage_X" -> zero_page_x(c)
      [] mode = "ZeroPage_Y" -> zero_page_y(c)
      [] mode = "Absolute_X" -> absolute_x(c)
      [] mode = "Absolute_Y" -> absolute_y(c)
      [] mode = "Indirect_X" -> indirect_x(c)
      [] mode = "Indirect_Y" -> indirect_y(c)
      [] OTHER               -> PANIC   \* NoneAddressing: panic!

\* let addr = self.get_operand_address(mode); let value = self.mem_read(addr);
\* the byte, or PANIC when either call panicked
fetch_operand(c, mode) == mem_read(c, get_operand_address(c, mode))

-----------------------------------------------------------------------------
(* Instruction handlers *)

\* add_to_register_a with the carry taken at 0xFF instead of above it
add_to_register_a_carry_at_255(c, value) ==
    LET sum    == c.register_a + value + (IF contains(c.status, CARRY) THEN 1 ELSE 0)
        carry  == sum >= 255
        c1     == set_status(c, CARRY, carry)
        result == wrap8(sum)
        c2     == set_status(c1, OVERFLOW,
                     bitand(bitand(bitxor(value, result),
                                   bitxor(result, c.register_a)), 128) # 0)
    IN  set_register_a(c2, result)

\* CPU::add_to_register_a
add_to_register_a(c, value) ==
    LET sum    == c.register_a + value + (IF contains(c.status, CARRY) THEN 1 ELSE 0)
        carry  == sum > 255
        c1     == set_status(c, CARRY, carry)
        result == wrap8(sum)
        c2     == set_status(c1, OVERFLOW,
                     bitand(bitand(bitxor(value, result),
                                   bitxor(result, c.register_a)), 128) # 0)
    IN  set_register_a(c2, result)

\* CPU::adc
adc(c, mode) ==
    LET value == fetch_operand(c, mode)
    IN  IF value = PANIC THEN Panic(c) ELSE add_to_register_a(c, value)

\* CPU::sbc: value as i8, wrapping_neg, wrapping_sub(1), as u8, into set_register_a
sbc(c, mode) ==
    LET value == fetch_operand(c, mode)
    IN  IF value = PANIC THEN Panic(c)
        ELSE set_register_a(c, (0 - as_i8(value) - 1) % 256)

\* CPU::and
and(c, mode) ==
    LET value == fetch_operand(c, mode)
    IN  IF value = PANIC THEN Panic(c)
        ELSE set_register_a(c, bitand(value, c.register_a))

\* CPU::eor
eor(c, mode) ==
    LET value == fetch_operand(c, mode)
    IN  IF value = PANIC THEN Panic(c)
        ELSE set_register_a(c, bitxor(value, c.register_a))

\* CPU::ora
ora(c, mode) ==
    LET value == fetch_operand(c, mode)
    IN  IF value = PANIC THEN Panic(c)
        ELSE set_register_a(c, bitor(value, c.register_a))

\* CPU::asl
asl(c, mode) ==
    LET addr == get_operand_address(c, mode)
        data == mem_read(c, addr)
        c1   == set_status(c, CARRY, data \div 128 = 1)
        res  == wrap8(data * 2)
    IN  IF data = PANIC THEN Panic(c)
        ELSE update_zero_and_negative_flags(mem_write(c1, addr, res), res)

\* CPU::asl_accumulator
asl_accumulator(c) ==
    LET data == c.register_a
        c1   == set_status(c, CARRY, data \div 128 = 1)
    IN  set_register_a(c1, wrap8(data * 2))

\* CPU::lsr
lsr(c, mode) ==
    LET addr == get_operand_address(c, mode)
        data == mem_read(c, addr)
        c1   == set_status(c, CARRY, data % 2 = 1)
        res  == data \div 2
    IN  IF data = PANIC THEN Panic(c)
        ELSE update_zero_and_negative_flags(mem_write(c1, addr, res), res)

\* CPU::lsr_accumulator
lsr_accumulator(c) ==
    LET data == c.register_a
        c1   == set_status(c, CARRY, data % 2 = 1)
    IN  set_register_a(c1, data \div 2)

\* CPU::rol: only NEGATIVE is updated from the result
rol(c, mode) ==
    LET addr      == get_operand_address(c, mode)
        value     == mem_read(c, addr)
        old_carry == contains(c.status, CARRY)
        c1        == set_status(c, CARRY, value \div 128 = 1)
        res       == bitor(wrap8(value * 2), IF old_carry THEN 1 ELSE 0)
    IN  IF value = PANIC THEN Panic(c)
        ELSE set_status(mem_write(c1, addr, res), NEGATIVE, res \div 128 = 1)

\* CPU::rol_accumulator
rol_accumulator(c) ==
    LET value     == c.register_a
        old_carry == contains(c.status, CARRY)
        c1        == set_status(c, CARRY, value \div 128 = 1)
    IN  set_register_a(c1, bitor(wrap8(value * 2), IF old_carry THEN 1 ELSE 0))

\* CPU::ror: only NEGATIVE is updated from the result
ror(c, mode) ==
    LET addr      == get_operand_address(c, mode)
        value     == mem_read(c, addr)
        old_carry == contains(c.status, CARRY)
        c1        == set_status(c, CARRY, value % 2 = 1)
        res       == bitor(value \div 2, IF old_carry THEN NEGATIVE ELSE 0)
    IN  IF value = PANIC THEN Panic(c)
        ELSE set_status(mem_write(c1, addr, res), NEGATIVE, res \div 128 = 1)

\* CPU::ror_accumulator
ror_accumulator(c) ==
    LET value     == c.register_a
        old_carry == contains(c.status, CARRY)
        c1        == set_status(c, CARRY, value % 2 = 1)
    IN  set_register_a(c1, bitor(value \div 2, IF old_carry THEN NEGATIVE ELSE 0))

\* CPU::bit
bit(c, mode) ==
    LET value == fetch_operand(c, mode)
        c1    == set_status(c, ZERO, bitand(value, c.register_a) = 0)
        c2    == set_status(c1, NEGATIVE, bitand(value, NEGATIVE) > 0)
    IN  IF value = PANIC THEN Panic(c)
        ELSE set_status(c2, OVERFLOW, bitand(value, OVERFLOW) > 0)

\* CPU::branch
branch(c, condition) ==
    IF condition
    THEN LET jump == mem_read(c, c.program_counter)
         IN  IF jump = PANIC THEN Panic(c)
             ELSE [c EXCEPT !.program_counter =
                      wrap16(wrap16(c.program_counter + 1) + wrap16(as_i8(jump)))]
    ELSE c

\* compare that borrows when Carry is clear, as a subtraction would
compare_borrows(c, mode, compare_with) ==
    LET value  == fetch_operand(c, mode)
        borrow == IF contains(c.status, CARRY) THEN 0 ELSE 1
        c1     == set_status(c, CARRY, value + borrow <= compare_with)
    IN  IF value = PANIC THEN Panic(c)
        ELSE update_zero_and_negative_flags(c1, wrap8(compare_with + 512 - value - borrow))

\* CPU::compare
compare(c, mode, compare_with) ==
    LET value == fetch_operand(c, mode)
        c1    == set_status(c, CARRY, value <= compare_with)
    IN  IF value = PANIC THEN Panic(c)
        ELSE update_zero_and_negative_flags(c1, wrap8(compare_with + 256 - value))

\* CPU::dec
dec(c, mode) ==
    LET addr  == get_operand_address(c, mode)
        old   == mem_read(c, addr)
        value == wrap8(old + 255)
    IN  IF old = PANIC THEN Panic(c)
        ELSE update_zero_and_negative_flags(mem_write(c, addr, value), value)

\* CPU::inc
inc(c, mode) ==
    LET addr  == get_operand_address(c, mode)
        old   == mem_read(c, addr)
        value == wrap8(old + 1)
    IN  IF old = PANIC THEN Panic(c)
        ELSE update_zero_and_negative_flags(mem_write(c, addr, value), value)

\* CPU::dex
dex(c) ==
    LET v == wrap8(c.register_x + 255)
    IN  update_zero_and_negative_flags([c EXCEPT !.register_x = v], v)

\* CPU::dey
dey(c) ==
    LET v == wrap8(c.register_y + 255)
    IN  update_zero_and_negative_flags([c EXCEPT !.register_y = v], v)

\* inx that stops at 0xFF instead of wrapping
inx_saturating(c) ==
    LET v == IF c.register_x = 255 THEN 255 ELSE c.register_x + 1
    IN  update_zero_and_negative_flags([c EXCEPT !.register_x = v], v)

\* CPU::inx
inx(c) ==
    LET v == wrap8(c.register_x + 1)
    IN  update_zero_and_negative_flags([c EXCEPT !.register_x = v], v)

\* CPU::iny
iny(c) ==
    LET v == wrap8(c.register_y + 1)
    IN  update_zero_and_negative_flags([c EXCEPT !.register_y = v], v)

\* CPU::jmp_absolute
jmp_absolute(c) ==
    LET addr == mem_read_u16(c, c.program_counter)
    IN  IF addr = PANIC THEN Panic(c) ELSE [c EXCEPT !.program_counter = addr]

\* CPU::jmp_indirect, with the 6502 page-boundary behaviour
jmp_indirect(c) ==
    LET addr == mem_read_u16(c, c.program_counter)
        indirect_ref ==
            IF addr = PANIC THEN PANIC
            ELSE IF bitand(addr, \h00FF) = \h00FF
            THEN LET low  == mem_read(c, addr)
                     high == mem_read(c, bitand(addr, \hFF00))
                 IN  IF low = PANIC \/ high = PANIC THEN PANIC ELSE high * 256 + low
            ELSE mem_read_u16(c, addr)
    IN  IF indirect_ref = PANIC THEN Panic(c)
        ELSE [c EXCEPT !.program_counter = indirect_ref]

\* CPU::jsr
jsr(c) ==
    LET ret         == checked_add_u16(c.overflow_checks, c.program_counter + 1)
        c1          == stack_push_u16(c, ret)
        target_addr == mem_read_u16(c1, c1.program_counter)
    IN  IF ret = PANIC THEN Panic(c)
        ELSE IF target_addr = PANIC THEN Panic(c1)
        ELSE [c1 EXCEPT !.program_counter = target_addr]

\* rts without the + 1
rts_no_increment(c) ==
    LET c1 == stack_pop_u16(c)
    IN  [c1 EXCEPT !.program_counter = popped_u16(c)]

\* CPU::rts
rts(c) ==
    LET c1 == stack_pop_u16(c)
        pc == checked_add_u16(c.overflow_checks, popped_u16(c) + 1)
    IN  IF pc = PANIC THEN Panic(c1) ELSE [c1 EXCEPT !.program_counter = pc]

\* rti that adds one to the popped program counter, as rts does
rti_plus_one(c) ==
    LET c1 == stack_pop(c)
        c2 == [c1 EXCEPT !.status =
                 insert(remove(from_bits_truncate(popped(c1)), BREAK), BREAK_2)]
        c3 == stack_pop_u16(c2)
    IN  [c3 EXCEPT !.program_counter = wrap16(popped_u16(c2) + 1)]

\* CPU::rti
rti(c) ==
    LET c1 == stack_pop(c)
        c2 == [c1 EXCEPT !.status =
                 insert(remove(from_bits_truncate(popped(c1)), BREAK), BREAK_2)]
        c3 == stack_pop_u16(c2)
    IN  [c3 EXCEPT !.program_counter = popped_u16(c2)]

\* lda that updates Zero and Negative and clears Carry with them
lda_clears_carry(c, mode) ==
    LET value == fetch_operand(c, mode)
    IN  IF value = PANIC THEN Panic(c)
        ELSE set_status(set_register_a(c, value), CARRY, FALSE)

\* CPU::lda
lda(c, mode) ==
    LET value == fetch_operand(c, mode)
    IN  IF value = PANIC THEN Panic(c) ELSE set_register_a(c, value)

\* CPU::ldx
ldx(c, mode) ==
    LET value == fetch_operand(c, mode)
    IN  IF value = PANIC THEN Panic(c)
        ELSE update_zero_and_negative_flags([c EXCEPT !.register_x = value], value)

\* CPU::ldy
ldy(c, mode) ==
    LET value == fetch_operand(c, mode)
    IN  IF value = PANIC THEN Panic(c)
        ELSE update_zero_and_negative_flags([c EXCEPT !.register_y = value], value)

\* CPU::pha
pha(c) == stack_push(c, c.register_a)

\* CPU::pla
pla(c) ==
    LET c1 == stack_pop(c)
    IN  set_register_a(c1, popped(c1))

\* php that sets Break and Break2 in the live status as well
php_sets_live_flags(c) ==
    LET flags == insert(insert(c.status, BREAK), BREAK_2)
    IN  stack_push([c EXCEPT !.status = flags], flags)

\* CPU::php: BREAK and BREAK_2 are set in the pushed copy only
php(c) == stack_push(c, insert(insert(c.status, BREAK), BREAK_2))

\* plp that takes the popped byte as the status, as it is
plp_as_popped(c) ==
    LET c1 == stack_pop(c)
    IN  [c1 EXCEPT !.status = from_bits_truncate(popped(c1))]

\* CPU::plp
plp(c) ==
    LET c1 == stack_pop(c)
    IN  [c1 EXCEPT !.status =
            insert(remove(from_bits_truncate(popped(c1)), BREAK), BREAK_2)]

\* CPU::tax
tax(c) ==
    update_zero_and_negative_flags([c EXCEPT !.register_x = c.register_a], c.register_a)

\* CPU::tay
tay(c) ==
    update_zero_and_negative_flags([c EXCEPT !.register_y = c.register_a], c.register_a)

\* CPU::txs
txs(c) == [c EXCEPT !.stack_pointer = c.register_x]

\* CPU::tsx
tsx(c) ==
    update_zero_and_negative_flags([c EXCEPT !.register_x = c.stack_pointer],
                                   c.stack_pointer)

\* CPU::txa
txa(c) ==
    update_zero_and_negative_flags([c EXCEPT !.register_a = c.register_x], c.register_x)

\* CPU::tya
tya(c) ==
    update_zero_and_negative_flags([c EXCEPT !.register_a = c.register_y], c.register_y)

\* CPU::sta
sta(c, mode) ==
    LET addr == get_operand_address(c, mode)
    IN  IF addr = PANIC THEN Panic(c) ELSE mem_write(c, addr, c.register_a)

\* CPU::stx
stx(c, mode) ==
    LET addr == get_operand_address(c, mode)
    IN  IF addr = PANIC THEN Panic(c) ELSE mem_write(c, addr, c.register_x)

\* CPU::sty
sty(c, mode) ==
    LET addr == get_operand_address(c, mode)
    IN  IF addr = PANIC THEN Panic(c) ELSE mem_write(c, addr, c.register_y)

\* reset that leaves the status as it was
reset_keeps_status(c) ==
    LET pc == mem_read_u16(c, RESET_VECTOR)
        c1 == [c EXCEPT !.register_a = 0, !.register_x = 0, !.register_y = 0,
                        !.stack_pointer = STACK_RESET]
    IN  IF pc = PANIC THEN Panic(c1) ELSE [c1 EXCEPT !.program_counter = pc]

\* CPU::reset
reset(c) ==
    LET pc == mem_read_u16(c, RESET_VECTOR)
        c1 == [c EXCEPT !.register_a = 0, !.register_x = 0, !.register_y = 0,
                        !.stack_pointer = STACK_RESET, !.status = POWER_ON_STATUS]
    IN  IF pc = PANIC THEN Panic(c1) ELSE [c1 EXCEPT !.program_counter = pc]

\* memory[at .. at + len].copy_from_slice(program)
RECURSIVE copy_from_slice(_, _, _)
copy_from_slice(mem, at, program) ==
    IF program = << >> THEN mem
    ELSE copy_from_slice(store(mem, at, Head(program)), at + 1, Tail(program))

\* load that copies the program and leaves the reset vector as it was
load_keeps_vector(c, program) ==
    IF LOAD_ADDR + Len(program) > MEMORY_LEN THEN Panic(c)
    ELSE [c EXCEPT !.memory = copy_from_slice(@, LOAD_ADDR, program)]

\* CPU::load
load(c, program) ==
    IF LOAD_ADDR + Len(program) > MEMORY_LEN THEN Panic(c)
    ELSE mem_write_u16([c EXCEPT !.memory = copy_from_slice(@, LOAD_ADDR, program)],
                       RESET_VECTOR, LOAD_ADDR)

\* CPU::new
new(checks) ==
    [register_a |-> 0, register_x |-> 0, register_y |-> 0,
     status |-> from_bits_truncate(POWER_ON_STATUS), program_counter |-> 0,
     stack_pointer |-> STACK_RESET, memory |-> [a \in {} |-> 0],
     panicked |-> FALSE, overflow_checks |-> checks, touched |-> {}]

-----------------------------------------------------------------------------
(* The run loop, CPU::run_with_callback: one action per arm of its match.   *)

\* The most instructions a run of the model executes
MaxSteps == 4

\* The processor the variables hold
Cpu ==
    [register_a |-> register_a, register_x |-> register_x,
     register_y |-> register_y, status |-> status,
     program_counter |-> program_counter, stack_pointer |-> stack_pointer,
     memory |-> memory, panicked |-> FALSE,
     overflow_checks |-> overflow_checks, touched |-> {}]

\* What an observer reads off the processor it is handed
Snapshot(c) ==
    [register_a |-> c.register_a, register_x |-> c.register_x,
     register_y |-> c.register_y, status |-> c.status,
     program_counter |-> c.program_counter, stack_pointer |-> c.stack_pointer,
     memory |-> c.memory]

\* let code = self.mem_read(self.program_counter);
Fetched == mem_read(Cpu, program_counter)

\* if current_program_counter_state == self.program_counter
\*     { self.program_counter += (opcode.len - 1) as u16; }
advance(c, current_program_counter_state, len) ==
    IF c.panicked \/ current_program_counter_state # c.program_counter THEN c
    ELSE LET pc == checked_add_u16(c.overflow_checks, c.program_counter + (len - 1))
         IN  IF pc = PANIC THEN Panic(c) ELSE [c EXCEPT !.program_counter = pc]

\* The variables after one turn of the loop that ran handler: mid is the
\* processor the handler left, post the processor after the advance, which
\* is the one the callback is handed.
Commit(pre, mid, post) ==
    /\ register_a'      = post.register_a
    /\ register_x'      = post.register_x
    /\ register_y'      = post.register_y
    /\ status'          = post.status
    /\ program_counter' = post.program_counter
    /\ stack_pointer'   = post.stack_pointer
    /\ memory'          = post.memory
    /\ stack_touched'   = stack_touched \cup post.touched
    /\ run_state'       = IF post.panicked THEN "panicked" ELSE "running"
    /\ observed'        = IF post.panicked THEN observed
                          ELSE Append(observed, Snapshot(post))
    /\ hist'            = IF post.panicked THEN hist
                          ELSE Append(hist, [code |-> mem_read(pre, pre.program_counter),
                                             pre |-> pre, mid |-> mid, post |-> post])
    /\ UNCHANGED << overflow_checks, bus_vars, calls >>

\* One turn of the loop that decoded an opcode and ran the handler of its arm
Instr(handler(_, _)) ==
    /\ run_state = "running"
    /\ Len(hist) < MaxSteps
    /\ Fetched \in OPCODES
    /\ LET pre  == Cpu
           code == Fetched
           pc1  == checked_add_u16(overflow_checks, program_counter + 1)
           c0   == [pre EXCEPT !.program_counter = pc1]
           mid  == handler(c0, code)
           post == advance(mid, pc1, OpLen(code))
       IN  Commit(pre, mid, post)

\* 0x00 => return, with the callback called on the way out
Brk_calls_observer ==
    /\ run_state = "running"
    /\ Fetched = \h00
    /\ program_counter' = checked_add_u16(overflow_checks, program_counter + 1)
    /\ run_state' = "halted"
    /\ observed' = Append(observed, Snapshot(Cpu))
    /\ UNCHANGED << register_a, register_x, register_y, status, stack_pointer,
                    memory, overflow_checks, hist, stack_touched, bus_vars, calls >>

\* 0x00 => return
Brk ==
    /\ run_state = "running"
    /\ Fetched = \h00
    /\ program_counter' = checked_add_u16(overflow_checks, program_counter + 1)
    /\ run_state' = "halted"
    /\ UNCHANGED << register_a, register_x, register_y, status, stack_pointer,
                    memory, overflow_checks, observed, hist, stack_touched, bus_vars, calls >>

Nop ==
    /\ Fetched \in {\hEA}
    /\ Instr(LAMBDA c, code : c)
Txa ==
    /\ Fetched \in {\h8A}
    /\ Instr(LAMBDA c, code : txa(c))
Tax ==
    /\ Fetched \in {\hAA}
    /\ Instr(LAMBDA c, code : tax(c))
Inx ==
    /\ Fetched \in {\hE8}
    /\ Instr(LAMBDA c, code : inx(c))
Dex ==
    /\ Fetched \in {\hCA}
    /\ Instr(LAMBDA c, code : dex(c))
Tay ==
    /\ Fetched \in {\hA8}
    /\ Instr(LAMBDA c, code : tay(c))
Tya ==
    /\ Fetched \in {\h98}
    /\ Instr(LAMBDA c, code : tya(c))
Dey ==
    /\ Fetched \in {\h88}
    /\ Instr(LAMBDA c, code : dey(c))
Iny ==
    /\ Fetched \in {\hC8}
    /\ Instr(LAMBDA c, code : iny(c))
Adc ==
    /\ Fetched \in {\h69, \h65, \h75, \h6D, \h7D, \h79, \h61, \h71}
    /\ Instr(LAMBDA c, code : adc(c, OpMode(code)))
And ==
    /\ Fetched \in {\h29, \h25, \h35, \h2D, \h3D, \h39, \h21, \h31}
    /\ Instr(LAMBDA c, code : and(c, OpMode(code)))
AslAccumulator ==
    /\ Fetched \in {\h0A}
    /\ Instr(LAMBDA c, code : asl_accumulator(c))
Asl ==
    /\ Fetched \in {\h06, \h16, \h0E, \h1E}
    /\ Instr(LAMBDA c, code : asl(c, OpMode(code)))
Bit ==
    /\ Fetched \in {\h24, \h2C}
    /\ Instr(LAMBDA c, code : bit(c, OpMode(code)))
Bpl ==
    /\ Fetched \in {\h10}
    /\ Instr(LAMBDA c, code : branch(c, ~contains(c.status, NEGATIVE)))
Bmi ==
    /\ Fetched \in {\h30}
    /\ Instr(LAMBDA c, code : branch(c, contains(c.status, NEGATIVE)))
Bvc ==
    /\ Fetched \in {\h50}
    /\ Instr(LAMBDA c, code : branch(c, ~contains(c.status, OVERFLOW)))
Bvs ==
    /\ Fetched \in {\h70}
    /\ Instr(LAMBDA c, code : branch(c, contains(c.status, OVERFLOW)))
Bcc ==
    /\ Fetched \in {\h90}
    /\ Instr(LAMBDA c, code : branch(c, ~contains(c.status, CARRY)))
Bcs ==
    /\ Fetched \in {\hB0}
    /\ Instr(LAMBDA c, code : branch(c, contains(c.status, CARRY)))
Bne ==
    /\ Fetched \in {\hD0}
    /\ Instr(LAMBDA c, code : branch(c, ~contains(c.status, ZERO)))
Beq ==
    /\ Fetched \in {\hF0}
    /\ Instr(LAMBDA c, code : branch(c, contains(c.status, ZERO)))
Cmp ==
    /\ Fetched \in {\hC9, \hC5, \hD5, \hCD, \hDD, \hD9, \hC1, \hD1}
    /\ Instr(LAMBDA c, code : compare(c, OpMode(code), c.register_a))
Cpx ==
    /\ Fetched \in {\hE0, \hE4, \hEC}
    /\ Instr(LAMBDA c, code : compare(c, OpMode(code), c.register_x))
Cpy ==
    /\ Fetched \in {\hC0, \hC4, \hCC}
    /\ Instr(LAMBDA c, code : compare(c, OpMode(code), c.register_y))
Dec ==
    /\ Fetched \in {\hC6, \hD6, \hCE, \hDE}
    /\ Instr(LAMBDA c, code : dec(c, OpMode(code)))
Eor ==
    /\ Fetched \in {\h49, \h45, \h55, \h4D, \h5D, \h59, \h41, \h51}
    /\ Instr(LAMBDA c, code : eor(c, OpMode(code)))
Clc ==
    /\ Fetched \in {\h18}
    /\ Instr(LAMBDA c, code : set_status(c, CARRY, FALSE))
Sec ==
    /\ Fetched \in {\h38}
    /\ Instr(LAMBDA c, code : set_status(c, CARRY, TRUE))
Cli ==
    /\ Fetched \in {\h58}
    /\ Instr(LAMBDA c, code : set_status(c, INTERRUPT_DISABLE, FALSE))
Sei ==
    /\ Fetched \in {\h78}
    /\ Instr(LAMBDA c, code : set_status(c, INTERRUPT_DISABLE, TRUE))
Clv ==
    /\ Fetched \in {\hB8}
    /\ Instr(LAMBDA c, code : set_status(c, OVERFLOW, FALSE))
Cld ==
    /\ Fetched \in {\hD8}
    /\ Instr(LAMBDA c, code : set_status(c, DECIMAL_MODE, FALSE))
Sed ==
    /\ Fetched \in {\hF8}
    /\ Instr(LAMBDA c, code : set_status(c, DECIMAL_MODE, TRUE))
Inc ==
    /\ Fetched \in {\hE6, \hF6, \hEE, \hFE}
    /\ Instr(LAMBDA c, code : inc(c, OpMode(code)))
JmpAbsolute ==
    /\ Fetched \in {\h4C}
    /\ Instr(LAMBDA c, code : jmp_absolute(c))
JmpIndirect ==
    /\ Fetched \in {\h6C}
    /\ Instr(LAMBDA c, code : jmp_indirect(c))
Jsr ==
    /\ Fetched \in {\h20}
    /\ Instr(LAMBDA c, code : jsr(c))
Lda ==
    /\ Fetched \in {\hA9, \hA5, \hB5, \hAD, \hBD, \hB9, \hA1, \hB1}
    /\ Instr(LAMBDA c, code : lda(c, OpMode(code)))
Ldx ==
    /\ Fetched \in {\hA2, \hA6, \hB6, \hAE, \hBE}
    /\ Instr(LAMBDA c, code : ldx(c, OpMode(code)))
Ldy ==
    /\ Fetched \in {\hA0, \hA4, \hB4, \hAC, \hBC}
    /\ Instr(LAMBDA c, code : ldy(c, OpMode(code)))
LsrAccumulator ==
    /\ Fetched \in {\h4A}
    /\ Instr(LAMBDA c, code : lsr_accumulator(c))
Lsr ==
    /\ Fetched \in {\h46, \h56, \h4E, \h5E}
    /\ Instr(LAMBDA c, code : lsr(c, OpMode(code)))
Ora ==
    /\ Fetched \in {\h09, \h05, \h15, \h0D, \h1D, \h19, \h01, \h11}
    /\ Instr(LAMBDA c, code : ora(c, OpMode(code)))
RolAccumulator ==
    /\ Fetched \in {\h2A}
    /\ Instr(LAMBDA c, code : rol_accumulator(c))
Rol ==
    /\ Fetched \in {\h26, \h36, \h2E, \h3E}
    /\ Instr(LAMBDA c, code : rol(c, OpMode(code)))
RorAccumulator ==
    /\ Fetched \in {\h6A}
    /\ Instr(LAMBDA c, code : ror_accumulator(c))
Ror ==
    /\ Fetched \in {\h66, \h76, \h6E, \h7E}
    /\ Instr(LAMBDA c, code : ror(c, OpMode(code)))
Rti ==
    /\ Fetched \in {\h40}
    /\ Instr(LAMBDA c, code : rti(c))
Rts ==
    /\ Fetched \in {\h60}
    /\ Instr(LAMBDA c, code : rts(c))
Sbc ==
    /\ Fetched \in {\hE9, \hE5, \hF5, \hED, \hFD, \hF9, \hE1, \hF1}
    /\ Instr(LAMBDA c, code : sbc(c, OpMode(code)))
Txs ==
    /\ Fetched \in {\h9A}
    /\ Instr(LAMBDA c, code : txs(c))
Tsx ==
    /\ Fetched \in {\hBA}
    /\ Instr(LAMBDA c, code : tsx(c))
Pha ==
    /\ Fetched \in {\h48}
    /\ Instr(LAMBDA c, code : pha(c))
Pla ==
    /\ Fetched \in {\h68}
    /\ Instr(LAMBDA c, code : pla(c))
Php ==
    /\ Fetched \in {\h08}
    /\ Instr(LAMBDA c, code : php(c))
Plp ==
    /\ Fetched \in {\h28}
    /\ Instr(LAMBDA c, code : plp(c))
Sta ==
    /\ Fetched \in {\h85, \h95, \h8D, \h9D, \h99, \h81, \h91}
    /\ Instr(LAMBDA c, code : sta(c, OpMode(code)))
Stx ==
    /\ Fetched \in {\h86, \h96, \h8E}
    /\ Instr(LAMBDA c, code : stx(c, OpMode(code)))
Sty ==
    /\ Fetched \in {\h84, \h94, \h8C}
    /\ Instr(LAMBDA c, code : sty(c, OpMode(code)))

\* A loop that steps over a byte it cannot decode and goes on with the next
Fatal_skips ==
    /\ run_state = "running"
    /\ Fetched = PANIC \/ Fetched \notin OPCODES
    /\ run_state' = IF Fetched = PANIC THEN "panicked" ELSE "running"
    /\ program_counter' = IF Fetched = PANIC THEN program_counter
                          ELSE checked_add_u16(overflow_checks, program_counter + 1)
    /\ UNCHANGED << register_a, register_x, register_y, status, stack_pointer,
                    memory, overflow_checks, observed, hist, stack_touched, bus_vars, calls >>

\* The fetch itself panics (program_counter outside the array), or the byte
\* fetched has no descriptor (expect) or no arm (todo!)
Fatal ==
    /\ run_state = "running"
    /\ Fetched = PANIC \/ Fetched \notin OPCODES
    /\ run_state' = "panicked"
    /\ program_counter' = IF Fetched = PANIC THEN program_counter
                          ELSE checked_add_u16(overflow_checks, program_counter + 1)
    /\ UNCHANGED << register_a, register_x, register_y, status, stack_pointer,
                    memory, overflow_checks, observed, hist, stack_touched, bus_vars, calls >>

-----------------------------------------------------------------------------
(* The Bus of bus/mod.rs: 2048 bytes of work memory mirrored over           *)
(* 0x0000 .. 0x1FFF, the peripheral window 0x2000 .. 0x3FFF, program storage *)
(* at 0x8000 .. 0xFFFF.  A Bus is a record; a panic sets its field panicked. *)

RAM               == \h0000
RAM_MIRROR_END    == \h1FFF
PPU_REGISTERS     == \h2000
PPU_REGISTERS_END == \h3FFF

\* A Rom whose prg_rom has len bytes; byte k of it is prg_byte(rom, k)
Cartridge(len) == [prg_rom_len |-> len]

\* self.rom.prg_rom[k], k below the length: a content that differs between
\* the two 16K halves and from page to page
prg_byte(rom, k) == (k + 3 * (k \div 256) + 11 * (k \div \h4000) + 1) % 256

\* Bus::new
Bus_new(rom, checks) ==
    [cpu_vram |-> [a \in {} |-> 0], rom |-> rom, panicked |-> FALSE,
     overflow_checks |-> checks]

\* A u16 `-=`: panics when the build checks overflow, wraps otherwise
checked_sub_u16(checks, n) ==
    IF n < 0 THEN (IF checks THEN PANIC ELSE n + 65536) ELSE n

\* read_prg_rom without the fold of a 16K sequence into the upper half
read_prg_rom_no_mirror(b, addr) ==
    LET a1 == checked_sub_u16(b.overflow_checks, addr - \h8000)
    IN  IF a1 = PANIC THEN PANIC
        ELSE IF a1 < b.rom.prg_rom_len THEN prg_byte(b.rom, a1) ELSE PANIC

\* Bus::read_prg_rom; PANIC when the subtraction overflows in a build that
\* checks it, or the index is outside the sequence
read_prg_rom(b, addr) ==
    LET a1 == checked_sub_u16(b.overflow_checks, addr - \h8000)
        a2 == IF b.rom.prg_rom_len = \h4000 /\ a1 >= \h4000 THEN a1 % \h4000 ELSE a1
    IN  IF a1 = PANIC THEN PANIC
        ELSE IF a2 < b.rom.prg_rom_len THEN prg_byte(b.rom, a2) ELSE PANIC

\* Bus::mem_read whose peripheral window reads the work memory behind it
Bus_mem_read_window_reads_ram(b, addr) ==
    IF addr \in RAM .. PPU_REGISTERS_END
    THEN LET mirror_down_addr == addr % \h0800
         IN  IF mirror_down_addr \in DOMAIN b.cpu_vram
             THEN b.cpu_vram[mirror_down_addr] ELSE 0
    ELSE IF addr \in \h8000 .. \hFFFF THEN read_prg_rom(b, addr)
    ELSE 0

\* impl Mem for Bus, mem_read
Bus_mem_read(b, addr) ==
    IF addr \in RAM .. RAM_MIRROR_END
    THEN LET mirror_down_addr == addr % \h0800     \* addr & 0b00000111_11111111
         IN  IF mirror_down_addr \in DOMAIN b.cpu_vram
             THEN b.cpu_vram[mirror_down_addr] ELSE 0
    ELSE IF addr \in PPU_REGISTERS .. PPU_REGISTERS_END THEN 0
    ELSE IF addr \in \h8000 .. \hFFFF THEN read_prg_rom(b, addr)
    ELSE 0

\* Bus::mem_write that indexes the work memory without mirroring down
Bus_mem_write_no_mirror(b, addr, data) ==
    IF addr \in RAM .. RAM_MIRROR_END
    THEN [b EXCEPT !.cpu_vram = store(b.cpu_vram, addr, data)]
    ELSE IF addr \in \h8000 .. \hFFFF THEN [b EXCEPT !.panicked = TRUE]
    ELSE b

\* Bus::mem_write that ignores a write to the program storage
Bus_mem_write_rom_ignored(b, addr, data) ==
    IF addr \in RAM .. RAM_MIRROR_END
    THEN [b EXCEPT !.cpu_vram = store(b.cpu_vram, addr % \h0800, data)]
    ELSE b

\* impl Mem for Bus, mem_write
Bus_mem_write(b, addr, data) ==
    IF addr \in RAM .. RAM_MIRROR_END
    THEN LET mirror_down_addr == addr % \h0800     \* addr & 0b00000111_11111111
         IN  [b EXCEPT !.cpu_vram = store(b.cpu_vram, mirror_down_addr, data)]
    ELSE IF addr \in PPU_REGISTERS .. PPU_REGISTERS_END THEN b
    ELSE IF addr \in \h8000 .. \hFFFF THEN [b EXCEPT !.panicked = TRUE]   \* panic!
    ELSE b

-----------------------------------------------------------------------------
(* Harness states: a processor built by CPU::new whose public fields and    *)
(* memory a test harness has then set, as the tests of the repository do    *)
(* before they call run_with_callback.                                      *)

\* cpu.register_a = a; cpu.register_x = x; ... on the public fields
seed(c, a, x, y, p, sp, pc) ==
    [c EXCEPT !.register_a = a, !.register_x = x, !.register_y = y,
              !.status = from_bits_truncate(p), !.stack_pointer = sp,
              !.program_counter = pc]

\* cpu.mem_write(at, b) for each byte b of a sequence, at consecutive addresses
RECURSIVE poke(_, _, _)
poke(c, at, bytes) ==
    IF bytes = << >> THEN c
    ELSE poke(mem_write(c, at, Head(bytes)), at + 1, Tail(bytes))

\* The variables hold processor c, about to enter run_with_callback
Harness(c) ==
    /\ register_a      = c.register_a
    /\ register_x      = c.register_x
    /\ register_y      = c.register_y
    /\ status          = c.status
    /\ stack_pointer   = c.stack_pointer
    /\ program_counter = c.program_counter
    /\ memory          = c.memory
    /\ overflow_checks = c.overflow_checks
    /\ run_state       = "running"
    /\ observed        = << >>
    /\ hist            = << >>
    /\ stack_touched   = {}
    /\ bus             = Bus_new(Cartridge(\h4000), c.overflow_checks)
    /\ bus_log         = << >>
    /\ calls           = << >>

-----------------------------------------------------------------------------
(* Reading the history *)

Steps == 1 .. Len(hist)

\* The processor the handler of step h started from: the opcode is fetched
Decoded(h) == [h.pre EXCEPT !.program_counter = h.pre.program_counter + 1]

\* The byte the handler of step h fetched through its addressing mode
Operand(h) == fetch_operand(Decoded(h), OpMode(h.code))

Flag(c, flag) == contains(c.status, flag)
CarryIn(c) == IF contains(c.status, CARRY) THEN 1 ELSE 0
Bit7(b) == b \div 128

AdcCodes == {\h69, \h65, \h75, \h6D, \h7D, \h79, \h61, \h71}
SbcCodes == {\hE9, \hE5, \hF5, \hED, \hFD, \hF9, \hE1, \hF1}

-----------------------------------------------------------------------------
(* The whole machine: one instruction of every kind, then whatever follows  *)

Init ==
    \E op \in OPCODES \cup {\h02}, a \in {\h00, \h80, \hFF}, carry \in {0, 1},
       checks \in BOOLEAN :
        LET c0 == seed(new(checks), a, \h01, \hFF, POWER_ON_STATUS + carry,
                       STACK_RESET, LOAD_ADDR)
        IN  Harness(poke(c0, LOAD_ADDR, << op, \h10, \h02 >>))

Next ==
    \/ Nop \/ Txa \/ Tax \/ Inx \/ Dex \/ Tay
    \/ Tya \/ Dey \/ Iny \/ Adc \/ And \/ AslAccumulator
    \/ Asl \/ Bit \/ Bpl \/ Bmi \/ Bvc \/ Bvs
    \/ Bcc \/ Bcs \/ Bne \/ Beq \/ Cmp \/ Cpx
    \/ Cpy \/ Dec \/ Eor \/ Clc \/ Sec \/ Cli
    \/ Sei \/ Clv \/ Cld \/ Sed \/ Inc \/ JmpAbsolute
    \/ JmpIndirect \/ Jsr \/ Lda \/ Ldx \/ Ldy \/ LsrAccumulator
    \/ Lsr \/ Ora \/ RolAccumulator \/ Rol \/ RorAccumulator \/ Ror
    \/ Rti \/ Rts \/ Sbc \/ Txs \/ Tsx \/ Pha
    \/ Pla \/ Php \/ Plp \/ Sta \/ Stx \/ Sty
    \/ Brk \/ Fatal

Spec == Init /\ [][Next]_vars

-----------------------------------------------------------------------------
(* Add and subtract with carry over every accumulator, operand and carry    *)

InitArith ==
    \E op \in {\h69, \hE9}, a \in Byte, m \in Byte, carry \in {0, 1} :
        Harness(poke(seed(new(TRUE), a, 0, 0, POWER_ON_STATUS + carry,
                          STACK_RESET, LOAD_ADDR),
                     LOAD_ADDR, << op, m >>))

NextArith == Adc \/ Sbc

SpecArith == InitArith /\ [][NextArith]_vars

\* What add-with-carry of byte b leaves, stated on step h
AddsWithCarry(h, b) ==
    LET a      == h.pre.register_a
        wide   == a + b + CarryIn(h.pre)
        result == wide % 256
    IN  /\ h.post.register_a = result
        /\ Flag(h.post, CARRY) <=> wide > 255
        /\ Flag(h.post, OVERFLOW) <=> (Bit7(a) # Bit7(result) /\ Bit7(b) # Bit7(result))
        /\ Flag(h.post, ZERO) <=> result = 0
        /\ Flag(h.post, NEGATIVE) <=> Bit7(result) = 1

\* C1: an SBC whose fetched byte is M behaves as add-with-carry of the byte
\* (-(M) - 1) mod 256: A, Carry, Overflow, Zero and Negative are those of
\* A + ((-(M) - 1) mod 256) + C.
C1_SbcAddsComplement ==
    \A i \in Steps :
        hist[i].code \in SbcCodes =>
            AddsWithCarry(hist[i], (0 - Operand(hist[i]) - 1) % 256)

\* C2: ADC with A = a, fetched byte b and carry-in c leaves A = (a+b+c) mod 256,
\* Carry iff a+b+c > 255, Overflow iff ((a ^ r) & (b ^ r) & 0x80) != 0 (both
\* operands differ in sign from the truncated result r), Zero iff r = 0 and
\* Negative iff bit 7 of r.
C2_AdcResult ==
    \A i \in Steps :
        hist[i].code \in AdcCodes => AddsWithCarry(hist[i], Operand(hist[i]))

\* An ADC that carried out and overflowed: 0x80 + 0x80 + 1
C2_Witness ==
    /\ Len(hist) = 1
    /\ hist[1].code = \h69
    /\ hist[1].pre.register_a = \h80
    /\ Operand(hist[1]) = \h80
    /\ CarryIn(hist[1].pre) = 1
    /\ register_a = 1
    /\ contains(status, CARRY)
    /\ contains(status, OVERFLOW)

-----------------------------------------------------------------------------
(* Conditional branches at several addresses, over every displacement       *)

\* Where the branch sits: mid-memory, low enough that a backward branch wraps
\* below 0x0000, high enough that a forward branch wraps above 0xFFFF
BranchAt == {LOAD_ADDR, \h0010, \hFFF0}

\* No flag that a branch tests set / all of them set
BranchStatus == {POWER_ON_STATUS, POWER_ON_STATUS + NEGATIVE + OVERFLOW + ZERO + CARRY}

InitBranch ==
    \E op \in BranchOps, p \in BranchAt, d \in Byte, st \in BranchStatus,
       checks \in BOOLEAN :
        Harness(poke(seed(new(checks), 0, 0, 0, st, STACK_RESET, p), p, << op, d >>))

NextBranch == Bpl \/ Bmi \/ Bvc \/ Bvs \/ Bcc \/ Bcs \/ Bne \/ Beq \/ Brk

SpecBranch == InitBranch /\ [][NextBranch]_vars

\* The condition of each branch opcode on a processor
BranchCondition(code, c) ==
    CASE code = \h10 -> ~Flag(c, NEGATIVE)
      [] code = \h30 -> Flag(c, NEGATIVE)
      [] code = \h50 -> ~Flag(c, OVERFLOW)
      [] code = \h70 -> Flag(c, OVERFLOW)
      [] code = \h90 -> ~Flag(c, CARRY)
      [] code = \hB0 -> Flag(c, CARRY)
      [] code = \hD0 -> ~Flag(c, ZERO)
      [] code = \hF0 -> Flag(c, ZERO)

\* C3: a conditional branch at p with signed displacement d leaves the program
\* counter at (p + 2 + d) mod 65536 when its condition holds and at p + 2 when
\* it does not.
C3_BranchTarget ==
    \A i \in Steps :
        hist[i].code \in BranchOps =>
            LET p == hist[i].pre.program_counter
                d == as_i8(mem_read(hist[i].pre, p + 1))
            IN  hist[i].post.program_counter =
                    IF BranchCondition(hist[i].code, hist[i].pre)
                    THEN (p + 2 + d) % 65536
                    ELSE p + 2

-----------------------------------------------------------------------------
(* Shifts and rotates of the accumulator and of memory, over every byte     *)

AslCodes == {\h0A, \h06, \h16, \h0E, \h1E}
LsrCodes == {\h4A, \h46, \h56, \h4E, \h5E}
RolCodes == {\h2A, \h26, \h36, \h2E, \h3E}
RorCodes == {\h6A, \h66, \h76, \h6E, \h7E}
ShiftCodes == AslCodes \cup LsrCodes \cup RolCodes \cup RorCodes
AccumulatorCodes == {\h0A, \h4A, \h2A, \h6A}

\* The operand bytes of the memory forms: $10 / $10,X and $0210 / $0210,X
ShiftOperand == << \h10, \h02 >>

\* The address a shift of memory works on in these runs
ShiftAddr(code, x) ==
    CASE OpMode(code) = "ZeroPage"   -> \h0010
      [] OpMode(code) = "ZeroPage_X" -> \h0010 + x
      [] OpMode(code) = "Absolute"   -> \h0210
      [] OpMode(code) = "Absolute_X" -> \h0210 + x

InitShift ==
    \E op \in ShiftCodes, v \in Byte, carry \in {0, CARRY}, zero \in {0, ZERO},
       x \in {0, 3}, checks \in BOOLEAN :
        LET c == seed(new(checks), IF op \in AccumulatorCodes THEN v ELSE \h55,
                      x, 0, POWER_ON_STATUS + carry + zero, STACK_RESET, LOAD_ADDR)
            d == IF op \in AccumulatorCodes THEN c
                 ELSE mem_write(c, ShiftAddr(op, x), v)
        IN  Harness(poke(d, LOAD_ADDR, SubSeq(<< op >> \o ShiftOperand, 1, OpLen(op))))

NextShift ==
    \/ AslAccumulator \/ Asl \/ LsrAccumulator \/ Lsr
    \/ RolAccumulator \/ Rol \/ RorAccumulator \/ Ror
    \/ Brk

SpecShift == InitShift /\ [][NextShift]_vars

\* The byte a shift or rotate of step h works on
ShiftInput(h) ==
    IF h.code \in AccumulatorCodes THEN h.pre.register_a ELSE Operand(h)

\* The byte the instruction of step h left in its destination
ShiftOutput(h) ==
    IF h.code \in AccumulatorCodes THEN h.post.register_a
    ELSE mem_read(h.post, get_operand_address(Decoded(h), OpMode(h.code)))

\* C4: for ASL, LSR, ROL and ROR, on the accumulator and on memory: Carry
\* receives the bit shifted out, a rotate shifts the prior Carry into the
\* vacated bit, the result is written back, and Zero / Negative are those of
\* the 8-bit result.
C4_ShiftRotate ==
    \A i \in Steps :
        hist[i].code \in ShiftCodes =>
            LET h      == hist[i]
                old    == ShiftInput(h)
                left   == h.code \in AslCodes \cup RolCodes
                rotate == h.code \in RolCodes \cup RorCodes
                cin    == IF rotate THEN CarryIn(h.pre) ELSE 0
                result == IF left THEN ((old * 2) % 256) + cin
                          ELSE (old \div 2) + 128 * cin
                out    == IF left THEN Bit7(old) ELSE old % 2
            IN  /\ ShiftOutput(h) = result
                /\ Flag(h.post, CARRY) <=> out = 1
                /\ Flag(h.post, ZERO) <=> result = 0
                /\ Flag(h.post, NEGATIVE) <=> Bit7(result) = 1

-----------------------------------------------------------------------------
(* Jumps, calls and returns                                                 *)

Lo(w) == w % 256
Hi(w) == w \div 256

\* Where the jump or call sits
JumpAt == {LOAD_ADDR, \h02FD}

\* Operands of JMP absolute and JSR from p: into the instruction itself, the
\* next instruction, the bottom, the middle and the top of memory
JumpTargets(p) == {p + 1, p + 3, \h0000, \h0700, \hFFFE}

\* Pointer addresses of JMP indirect: inside a page, at the last byte of a
\* page (zero page, a middle page), and at the last bytes of the array
JumpPointers == {\h0280, \h02FF, \h00FF, \hFFFD, \hFFFE}

\* The stack pointers a call starts from: the reset value, and values from
\* which the two pushes wrap around the page
CallStack == {STACK_RESET, \h00, \h01}

\* Subroutine bodies between the entry of the subroutine and its RTS, for a
\* call with stack pointer s: nothing, NOP, PHA PLA (the stack is used and
\* restored), STA into the stack byte that holds the low return byte
CallBodies(s) ==
    { << >>, << \hEA >>, << \h48, \h68 >>,
      << \h8D, Lo(STACK + ((s + 255) % 256)), Hi(STACK + ((s + 255) % 256)) >> }

InitJumpDirect ==
    \E op \in {\h4C, \h20}, p \in JumpAt, checks \in BOOLEAN :
        \E t \in JumpTargets(p) :
            Harness(poke(seed(new(checks), 0, 0, 0, POWER_ON_STATUS, STACK_RESET, p),
                         p, << op, Lo(t), Hi(t) >>))

\* JMP (q) at LOAD_ADDR; the bytes at q, after q and at the start of q's page
\* are set apart, and one choice of them spells LOAD_ADDR + 1
InitJumpIndirect ==
    \E q \in JumpPointers, lo \in {\h80, \h01}, hi \in {\h50, \h06},
       page \in {\h40, \h06}, checks \in BOOLEAN :
        LET c0 == seed(new(checks), 0, 0, 0, POWER_ON_STATUS, STACK_RESET, LOAD_ADDR)
            c1 == poke(c0, LOAD_ADDR, << \h6C, Lo(q), Hi(q) >>)
            c2 == mem_write(c1, (q \div 256) * 256, page)
            c3 == IF q + 1 < MEMORY_LEN THEN mem_write(c2, q + 1, hi) ELSE c2
        IN  Harness(mem_write(c3, q, lo))

\* JSR sub at LOAD_ADDR, the subroutine at 0x0700: a body, then RTS
InitCall ==
    \E s \in CallStack, a \in {\h00, \h77}, checks \in BOOLEAN :
        \E body \in CallBodies(s) :
            LET c0 == seed(new(checks), a, 0, 0, POWER_ON_STATUS, s, LOAD_ADDR)
                c1 == poke(c0, LOAD_ADDR, << \h20, \h00, \h07 >>)
            IN  Harness(poke(c1, \h0700, body \o << \h60 >>))

InitJump == InitJumpDirect \/ InitJumpIndirect \/ InitCall

NextJump ==
    \/ JmpAbsolute \/ JmpIndirect \/ Jsr \/ Rts
    \/ Nop \/ Pha \/ Pla \/ Sta
    \/ Brk

SpecJump == InitJump /\ [][NextJump]_vars

\* The 16-bit operand of the instruction of step h
OperandWord(h) == mem_read_u16(h.pre, h.pre.program_counter + 1)

\* The instructions whose handler sets the program counter
ControlCodes == BranchOps \cup JumpOps \cup {\h60, \h40}

\* C5: JMP absolute and JSR with operand t at any address p leave the program
\* counter equal to t after the step; the post-decode advance of length - 1
\* is applied only to instructions that are not branch, jump, call or return.
C5_JumpLoadsOperand ==
    \A i \in Steps :
        /\ hist[i].code \in {\h4C, \h20} =>
               hist[i].post.program_counter = OperandWord(hist[i])
        /\ hist[i].post.program_counter # hist[i].mid.program_counter =>
               hist[i].code \notin ControlCodes


\* C6: after JMP indirect with pointer address q, the new program counter's
\* low byte is the byte at q, and its high byte is the byte at q + 1 when the
\* low byte of q is not 0xFF, and the byte at the start of q's page
\* (q & 0xFF00) when it is.  The new program counter is the one the step
\* leaves, after the loop's advance.
C6_IndirectJump ==
    \A i \in Steps :
        hist[i].code = \h6C =>
            LET q  == OperandWord(hist[i])
                pc == hist[i].post.program_counter
            IN  /\ Lo(pc) = mem_read(hist[i].pre, q)
                /\ Hi(pc) = IF Lo(q) # \hFF
                            THEN mem_read(hist[i].pre, q + 1)
                            ELSE mem_read(hist[i].pre, Hi(q) * 256)

\* What JSR at p with stack pointer s leaves: p + 2 on the stack, high byte
\* first, and the stack pointer two lower modulo 256
CallPushes(h) ==
    LET p == h.pre.program_counter
        s == h.pre.stack_pointer
    IN  /\ mem_read(h.post, STACK + s) = Hi(p + 2)
        /\ mem_read(h.post, STACK + ((s + 255) % 256)) = Lo(p + 2)
        /\ h.post.stack_pointer = (s + 254) % 256

\* The RTS of step r returns from the JSR of step h
Returns(h, r) ==
    /\ r.post.program_counter = h.pre.program_counter + 3
    /\ r.post.stack_pointer = h.pre.stack_pointer

\* The return address the JSR of step h pushed is on the stack as step r starts
ReturnAddressKept(h, r) ==
    LET p == h.pre.program_counter
        s == h.pre.stack_pointer
    IN  /\ mem_read(r.pre, STACK + s) = Hi(p + 2)
        /\ mem_read(r.pre, STACK + ((s + 255) % 256)) = Lo(p + 2)

\* C7 as stated: JSR at p pushes p + 2 high byte first and lowers the stack
\* pointer by 2 modulo 256; a later RTS executed with the stack pointer at the
\* value it had just after the call sets the program counter to p + 3 and
\* restores the stack pointer.
C7_CallReturnAsStated ==
    \A i \in Steps :
        hist[i].code = \h20 =>
            /\ CallPushes(hist[i])
            /\ \A j \in Steps :
                   (/\ j > i
                    /\ hist[j].code = \h60
                    /\ hist[j].pre.stack_pointer = hist[i].post.stack_pointer)
                   => Returns(hist[i], hist[j])

\* C7, amended: the same, for a later RTS executed with the stack pointer at
\* the value it had just after the call and the two pushed bytes still on the
\* stack.
C7_CallReturn ==
    \A i \in Steps :
        hist[i].code = \h20 =>
            /\ CallPushes(hist[i])
            /\ \A j \in Steps :
                   (/\ j > i
                    /\ hist[j].code = \h60
                    /\ hist[j].pre.stack_pointer = hist[i].post.stack_pointer
                    /\ ReturnAddressKept(hist[i], hist[j]))
                   => Returns(hist[i], hist[j])

\* A call from stack pointer 0x00, whose pushes wrapped, a subroutine that
\* used the stack, and the return to p + 3
C7_Witness ==
    /\ Len(hist) = 4
    /\ hist[1].code = \h20
    /\ hist[1].pre.stack_pointer = \h00
    /\ hist[1].post.stack_pointer = \hFE
    /\ hist[2].code = \h48
    /\ hist[4].code = \h60
    /\ program_counter = LOAD_ADDR + 3
    /\ stack_pointer = \h00

-----------------------------------------------------------------------------
(* The stack: a push and a pop from every stack pointer with every byte,    *)
(* and every short sequence of the stack instructions                       *)

\* The longest sequence of stack instructions a run starts with
StackProgLen == 3

PushCodes == {\h48, \h08}
PopCodes  == {\h68, \h28}
StackCodes == PushCodes \cup PopCodes \cup {\h20, \h60, \h40}

StackPage == \h0100 .. \h01FF

\* PHA; PLA with stack pointer s and accumulator v; the bytes of the stack
\* page around 0x0100 + s hold another value
InitPushPop ==
    \E s \in Byte, v \in Byte :
        LET c0 == seed(new(TRUE), v, 0, 0, POWER_ON_STATUS, s, LOAD_ADDR)
            c1 == poke(c0, LOAD_ADDR, << \h48, \h68 >>)
            c2 == mem_write(c1, STACK + ((s + 1) % 256), (v + 1) % 256)
            c3 == mem_write(c2, STACK + ((s + 255) % 256), (v + 1) % 256)
        IN  Harness(mem_write(c3, STACK + s, (v + 1) % 256))

\* The bytes of a sequence of stack instructions assembled at address at; a
\* JSR calls the instruction that follows it
RECURSIVE Assemble(_, _)
Assemble(prog, at) ==
    IF prog = << >> THEN << >>
    ELSE IF Head(prog) = \h20
    THEN << \h20, Lo(at + 3), Hi(at + 3) >> \o Assemble(Tail(prog), at + 3)
    ELSE << Head(prog) >> \o Assemble(Tail(prog), at + 1)

StackPrograms == UNION { [1 .. n -> StackCodes] : n \in 1 .. StackProgLen }

\* A sequence of stack instructions, run from stack pointers at both ends of
\* the page; the stack page holds 0xFF where nothing was pushed yet
InitStackSeq ==
    \E prog \in StackPrograms, s \in {STACK_RESET, \h00, \h01, \hFE, \hFF},
       a \in {\h00, \hFF}, checks \in BOOLEAN :
        LET c0 == seed(new(checks), a, 0, 0, POWER_ON_STATUS, s, LOAD_ADDR)
            c1 == poke(c0, LOAD_ADDR, Assemble(prog, LOAD_ADDR))
        IN  Harness(poke(c1, \h01FE, << \hFF, \hFF >>))

InitStack == InitPushPop \/ InitStackSeq

NextStack == Pha \/ Pla \/ Php \/ Plp \/ Jsr \/ Rts \/ Rti \/ Brk \/ Fatal

SpecStack == InitStack /\ [][NextStack]_vars

\* The byte the push of step h pushed
Pushed(h) ==
    IF h.code = \h48 THEN h.pre.register_a
    ELSE h.pre.status + (IF Flag(h.pre, BREAK) THEN 0 ELSE BREAK)
                      + (IF Flag(h.pre, BREAK_2) THEN 0 ELSE BREAK_2)

\* The pop of step h returned byte v: PLA loads it, PLP makes it the status
\* with Break cleared and Break2 set
PopReturned(h, v) ==
    IF h.code = \h68 THEN h.post.register_a = v
    ELSE h.post.status = v - (IF contains(v, BREAK) THEN BREAK ELSE 0)
                           + (IF contains(v, BREAK_2) THEN 0 ELSE BREAK_2)

\* C8: from every stack pointer s and for every byte v, a push of v writes v
\* at 0x0100 + s and then decrements the stack pointer, and a pop right after
\* it increments, reads v back and leaves the stack pointer at s.
C8_PushThenPop ==
    \A i \in Steps :
        /\ hist[i].code \in PushCodes =>
               LET s == hist[i].pre.stack_pointer
               IN  /\ mem_read(hist[i].post, STACK + s) = Pushed(hist[i])
                   /\ hist[i].post.stack_pointer = (s + 255) % 256
        /\ (i > 1 /\ hist[i - 1].code \in PushCodes /\ hist[i].code \in PopCodes) =>
               /\ PopReturned(hist[i], Pushed(hist[i - 1]))
               /\ hist[i].post.stack_pointer = hist[i - 1].pre.stack_pointer

\* PHA of 0x5A from stack pointer 0x00, whose decrement wrapped, then PLA
C8_Witness ==
    /\ Len(hist) = 2
    /\ hist[1].code = \h48
    /\ hist[2].code = \h68
    /\ hist[1].pre.stack_pointer = \h00
    /\ hist[1].post.stack_pointer = \hFF
    /\ hist[1].pre.register_a = \h5A
    /\ mem_read(Cpu, STACK) = \h5A
    /\ register_a = \h5A
    /\ stack_pointer = \h00

\* By how much the instruction of step h moves the stack pointer
StackDelta(code) ==
    CASE code \in PushCodes -> 0 - 1
      [] code \in PopCodes  -> 1
      [] code = \h20        -> 0 - 2
      [] code = \h60        -> 2
      [] code = \h40        -> 3

\* C9: after any sequence of PHA, PLA, PHP, PLP, JSR, RTS and RTI, underflow
\* and overflow included, the stack pointer has moved modulo 256 and every
\* address a stack operation read or wrote lies in 0x0100 .. 0x01FF; no byte
\* outside that page changed.
C9_StackStaysInPage ==
    /\ stack_pointer \in Byte
    /\ stack_touched \subseteq StackPage
    /\ \A i \in Steps :
           hist[i].code \in StackCodes =>
               /\ hist[i].post.stack_pointer =
                      (hist[i].pre.stack_pointer + StackDelta(hist[i].code)) % 256
               /\ hist[i].post.touched # {}
               /\ hist[i].post.touched \subseteq StackPage
               /\ \A a \in (DOMAIN hist[i].pre.memory \cup DOMAIN hist[i].post.memory)
                          \ StackPage :
                      mem_read(hist[i].post, a) = mem_read(hist[i].pre, a)

\* A pop from stack pointer 0xFF wrapped to 0x00 and read 0x0100, after a
\* push from 0x00 had wrapped to 0xFF
C9_Witness ==
    /\ Len(hist) >= 2
    /\ hist[1].code \in PushCodes
    /\ hist[1].pre.stack_pointer = \h00
    /\ hist[1].post.stack_pointer = \hFF
    /\ hist[2].code = \h40
    /\ hist[2].post.stack_pointer = \h02
    /\ {\h0100, \h0101, \h0102} \subseteq stack_touched

-----------------------------------------------------------------------------
(* Operand addresses: loads and stores through every indexed and indirect   *)
(* mode, over a zero page whose byte k holds k + 2                          *)

ZeroPageXCodes == {\h95, \hB5}
ZeroPageYCodes == {\h96, \hB6}
AbsoluteXCodes == {\h9D, \hBD}
AbsoluteYCodes == {\h99, \hB9}
IndirectXCodes == {\h81, \hA1}
IndirectYCodes == {\h91, \hB1}
IndexedCodes ==
    ZeroPageXCodes \cup ZeroPageYCodes \cup AbsoluteXCodes \cup AbsoluteYCodes
        \cup IndirectXCodes \cup IndirectYCodes
StoreCodes == {\h95, \h96, \h9D, \h99, \h81, \h91}

IndexSamples == {\h00, \h01, \h02, \h03, \h7F, \h80, \hFE, \hFF}
AbsoluteBases ==
    {\h0000, \h00FF, \h0100, \h0280, \h05FF, \h7FFF, \hFF00, \hFF80, \hFFFE, \hFFFF}

\* The memory after cpu.mem_write(k, k + 2) for every zero-page address k
\* (the byte at 0xFE is 0x00)
ZeroPagePattern == [k \in (\h00 .. \hFF) \ {\hFE} |-> (k + 2) % 256]

\* The index register the mode of op adds holds index, the other one other
InitAddr ==
    \E op \in IndexedCodes, index \in IndexSamples, other \in {\h00, \h11} :
        \E base \in IF OpLen(op) = 2 THEN Byte ELSE AbsoluteBases :
            LET byX == op \in ZeroPageXCodes \cup AbsoluteXCodes \cup IndirectXCodes
                x   == IF byX THEN index ELSE other
                y   == IF byX THEN other ELSE index
                c0  == seed(new(TRUE), \hA5, x, y, POWER_ON_STATUS, STACK_RESET, LOAD_ADDR)
                c1  == [c0 EXCEPT !.memory = ZeroPagePattern]
            IN  Harness(poke(c1, LOAD_ADDR,
                             SubSeq(<< op, Lo(base), Hi(base) >>, 1, OpLen(op))))

NextAddr == Sta \/ Stx \/ Lda \/ Ldx \/ Brk

SpecAddr == InitAddr /\ [][NextAddr]_vars

\* The byte of memory m at address a
Peek(m, a) == IF a \in DOMAIN m THEN m[a] ELSE 0

\* The address the instruction of step h works on, by its addressing mode
EffectiveAddress(h) ==
    LET m      == h.pre.memory
        at     == h.pre.program_counter + 1
        base   == Peek(m, at)
        base16 == Peek(m, at) + 256 * Peek(m, at + 1)
        X      == h.pre.register_x
        Y      == h.pre.register_y
    IN  CASE h.code \in ZeroPageXCodes -> (base + X) % 256
          [] h.code \in ZeroPageYCodes -> (base + Y) % 256
          [] h.code \in AbsoluteXCodes -> (base16 + X) % 65536
          [] h.code \in AbsoluteYCodes -> (base16 + Y) % 65536
          [] h.code \in IndirectXCodes ->
                 Peek(m, (base + X) % 256) + 256 * Peek(m, (base + X + 1) % 256)
          [] h.code \in IndirectYCodes ->
                 (Peek(m, base) + 256 * Peek(m, (base + 1) % 256) + Y) % 65536

\* The register the instruction of step h stores or loads
Transferred(h, c) ==
    IF h.code \in ZeroPageYCodes THEN c.register_x ELSE c.register_a

\* C10: with the program counter at the first operand byte, the operand
\* address is (base + X or Y) mod 256 for ZeroPage_X and ZeroPage_Y, below
\* 0x0100; (base16 + X or Y) mod 65536 for Absolute_X and Absolute_Y; the
\* little-endian pointer at (base + X) mod 256 and (base + X + 1) mod 256 for
\* Indirect_X; the little-endian pointer at base and (base + 1) mod 256, plus
\* Y, mod 65536 for Indirect_Y. Stores write there and loads read from there.
C10_OperandAddress ==
    \A i \in Steps :
        hist[i].code \in IndexedCodes =>
            LET h    == hist[i]
                addr == EffectiveAddress(h)
            IN  /\ get_operand_address(Decoded(h), OpMode(h.code)) = addr
                /\ h.code \in ZeroPageXCodes \cup ZeroPageYCodes => addr < \h0100
                /\ IF h.code \in StoreCodes
                   THEN \A a \in DOMAIN h.pre.memory \cup DOMAIN h.post.memory \cup {addr} :
                            Peek(h.post.memory, a) =
                                IF a = addr THEN Transferred(h, h.pre)
                                ELSE Peek(h.pre.memory, a)
                   ELSE Transferred(h, h.post) = Peek(h.pre.memory, addr)

\* STA $FF,X with X = 2 stored the accumulator at 0x0001, where the zero page
\* held 0x03, and left 0x0101 alone
C10_Witness ==
    /\ Len(hist) >= 1
    /\ hist[1].code = \h95
    /\ hist[1].pre.register_x = \h02
    /\ Peek(hist[1].pre.memory, LOAD_ADDR + 1) = \hFF
    /\ Peek(hist[1].pre.memory, \h0001) = \h03
    /\ Peek(hist[1].post.memory, \h0001) = \hA5
    /\ Peek(hist[1].post.memory, \h0101) = \h00

-----------------------------------------------------------------------------
(* The observer: short straight-line programs that end in BRK, and the      *)
(* program of trace.rs's test_format_trace                                  *)

\* The most instructions of a program the observer is watched on
ObserveLen == 3

\* INX; DEY; LDA #$80; STA $10; PHA; SEC
ObservedInstructions ==
    { << \hE8 >>, << \h88 >>, << \hA9, \h80 >>, << \h85, \h10 >>, << \h48 >>, << \h38 >> }

RECURSIVE Flatten(_)
Flatten(prog) ==
    IF prog = << >> THEN << >> ELSE Head(prog) \o Flatten(Tail(prog))

ObservedPrograms == UNION { [1 .. n -> ObservedInstructions] : n \in 0 .. ObserveLen }

InitStraight ==
    \E prog \in ObservedPrograms, a \in {\h00, \h7F}, x \in {\h00, \hFF} :
        LET c0 == seed(new(TRUE), a, x, \h01, POWER_ON_STATUS, STACK_RESET, LOAD_ADDR)
        IN  Harness(poke(c0, LOAD_ADDR, Flatten(prog)))

\* test_format_trace: LDX #$01; DEX; DEY; BRK at 0x0064 with A = 1, X = 2, Y = 3
InitTraceTest ==
    LET c0 == poke(new(TRUE), 100, << \hA2, \h01, \hCA, \h88, \h00 >>)
    IN  Harness([c0 EXCEPT !.program_counter = \h0064, !.register_a = 1,
                           !.register_x = 2, !.register_y = 3])

InitObserve == InitStraight \/ InitTraceTest

NextObserve == Inx \/ Dey \/ Lda \/ Sta \/ Pha \/ Sec \/ Ldx \/ Dex \/ Brk

SpecObserve == InitObserve /\ [][NextObserve]_vars

\* The k-th call of the observer came after instruction k: it was handed the
\* processor that instruction left, which the next instruction starts from,
\* with the program counter past the instruction and its effect applied
ObservedAfter(k) ==
    LET h == hist[k]
        o == observed[k]
    IN  /\ o = Snapshot(h.post)
        /\ o.program_counter = h.pre.program_counter + OpLen(h.code)
        /\ k < Len(hist) => o = Snapshot(hist[k + 1].pre)
        /\ k = Len(hist) =>
               /\ o.memory = memory
               /\ o.register_a = register_a /\ o.register_x = register_x
               /\ o.register_y = register_y /\ o.status = status
               /\ o.stack_pointer = stack_pointer
        /\ h.code = \hE8 => o.register_x = (h.pre.register_x + 1) % 256
        /\ h.code = \h88 => o.register_y = (h.pre.register_y + 255) % 256
        /\ h.code = \hCA => o.register_x = (h.pre.register_x + 255) % 256
        /\ h.code = \hA9 => o.register_a = \h80 /\ Flag(o, NEGATIVE)
        /\ h.code = \hA2 => o.register_x = \h01
        /\ h.code = \h85 => mem_read(o, \h10) = h.pre.register_a
        /\ h.code = \h48 => mem_read(o, STACK + h.pre.stack_pointer) = h.pre.register_a
        /\ h.code = \h38 => Flag(o, CARRY)

\* C11: in a run that executes n instructions and then decodes 0x00 the
\* observer is called exactly n times, the k-th call after the k-th
\* instruction with that instruction's effects applied; decoding 0x00 ends
\* the run, without a call of the observer, and nothing is executed after it.
C11_ObserverAfterEach ==
    /\ [](/\ Len(observed) = Len(hist)
          /\ \A k \in Steps : ObservedAfter(k)
          /\ run_state = "halted" =>
                 /\ mem_read(Cpu, program_counter - 1) = \h00
                 /\ Len(hist) > 0 =>
                        program_counter = observed[Len(hist)].program_counter + 1)
    /\ [][run_state # "halted"]_vars

\* INX; STA $10; LDA #$80; BRK has halted after three calls of the observer
C11_Witness ==
    /\ run_state = "halted"
    /\ Len(observed) = 3
    /\ hist[1].code = \hE8 /\ hist[2].code = \h85 /\ hist[3].code = \hA9
    /\ observed[1].register_x = \h00
    /\ observed[1].program_counter = LOAD_ADDR + 1
    /\ mem_read(observed[1], \h10) = \h00
    /\ mem_read(observed[2], \h10) = \h7F
    /\ observed[2].register_a = \h7F
    /\ observed[3].register_a = \h80
    /\ program_counter = LOAD_ADDR + 6

\* trace.rs, trace: the fields of the line it formats that come from the
\* processor: the address and byte of the opcode at the program counter, the
\* registers, the status and the stack pointer
trace(c) ==
    [start |-> c.program_counter, code |-> mem_read(c, c.program_counter),
     register_a |-> c.register_a, register_x |-> c.register_x,
     register_y |-> c.register_y, status |-> c.status,
     stack_pointer |-> c.stack_pointer]

\* C12: called from the observer of the run loop, the trace formatter sees
\* at its k-th call the processor before the k-th instruction executes: the
\* program counter at that instruction's opcode and the registers as they
\* were before it (for test_format_trace: 0064 X:02, 0066 X:01, 0067 X:00 P:26).
C12_TraceSeesBefore ==
    \A k \in 1 .. Len(observed) : trace(observed[k]) = trace(hist[k].pre)

-----------------------------------------------------------------------------
(* The Bus on its own: reads and writes at the ends of every range and of   *)
(* every mirror, over a 16K and a 32K program storage                       *)

\* The most accesses made to a Bus
MaxBusOps == 2

BusAddrs ==
    { \h0000, \h0001, \h07FF, \h0800, \h0801, \h1000, \h1800, \h1FFF,
      \h2000, \h2008, \h3FFF, \h4000, \h7FFF,
      \h8000, \h8001, \hBFFF, \hC000, \hC001, \hFFFF }

BusData == {\h5A, \hFF}

InitBus ==
    /\ overflow_checks \in BOOLEAN
    /\ \E len \in {\h4000, \h8000} : bus = Bus_new(Cartridge(len), overflow_checks)
    /\ bus_log = << >>
    /\ register_a = 0 /\ register_x = 0 /\ register_y = 0
    /\ status = POWER_ON_STATUS /\ program_counter = 0
    /\ stack_pointer = STACK_RESET /\ memory = [a \in {} |-> 0]
    /\ run_state = "idle"
    /\ observed = << >> /\ hist = << >> /\ stack_touched = {}
    /\ calls = << >>

\* bus.mem_read(addr)
BusRead ==
    /\ ~bus.panicked
    /\ Len(bus_log) < MaxBusOps
    /\ \A i \in 1 .. Len(bus_log) : bus_log[i].result # PANIC
    /\ \E addr \in BusAddrs :
           bus_log' = Append(bus_log, [op |-> "read", addr |-> addr, data |-> 0,
                                       result |-> Bus_mem_read(bus, addr),
                                       pre |-> bus, post |-> bus])
    /\ UNCHANGED << bus, cpu_vars >>

\* bus.mem_write(addr, data)
BusWrite ==
    /\ ~bus.panicked
    /\ Len(bus_log) < MaxBusOps
    /\ \A i \in 1 .. Len(bus_log) : bus_log[i].result # PANIC
    /\ \E addr \in BusAddrs, data \in BusData :
           LET post == Bus_mem_write(bus, addr, data)
           IN  /\ bus' = post
               /\ bus_log' = Append(bus_log, [op |-> "write", addr |-> addr, data |-> data,
                                              result |-> IF post.panicked THEN PANIC ELSE 0,
                                              pre |-> bus, post |-> post])
    /\ UNCHANGED cpu_vars

NextBus == BusRead \/ BusWrite

SpecBus == InitBus /\ [][NextBus]_vars

Accesses == 1 .. Len(bus_log)
WorkMemory == \h0000 .. \h1FFF

\* C13: after write(a, v) with a in 0x0000 .. 0x1FFF, a read of any a' of
\* that range with a' mod 0x0800 = a mod 0x0800 returns v and the bytes at
\* every other a' are unchanged; a write to 0x0000 is read back at 0x0800,
\* 0x1000 and 0x1800.  Stated at every address of the range after a first
\* write, at the sampled addresses after the later ones, and on the reads
\* that follow a write.
C13_WorkMemoryMirrors ==
    \A i \in Accesses :
        LET w == bus_log[i]
        IN  (w.op = "write" /\ w.addr \in WorkMemory) =>
                /\ w.result # PANIC
                /\ \A b \in (IF Len(bus_log) = 1 THEN WorkMemory
                            ELSE BusAddrs \cap WorkMemory) :
                       Bus_mem_read(w.post, b) =
                           IF b % \h0800 = w.addr % \h0800 THEN w.data
                           ELSE Bus_mem_read(w.pre, b)
                /\ w.addr = \h0000 =>
                       \A b \in {\h0800, \h1000, \h1800} : Bus_mem_read(w.post, b) = w.data
                /\ (i < Len(bus_log) /\ bus_log[i + 1].op = "read"
                        /\ bus_log[i + 1].addr \in WorkMemory) =>
                       bus_log[i + 1].result =
                           IF bus_log[i + 1].addr % \h0800 = w.addr % \h0800 THEN w.data
                           ELSE Bus_mem_read(w.pre, bus_log[i + 1].addr)

\* 0xFF written to 0x1FFF was read back at 0x07FF
C13_Witness ==
    /\ Len(bus_log) = 2
    /\ bus_log[1].op = "write" /\ bus_log[1].addr = \h1FFF /\ bus_log[1].data = \hFF
    /\ bus_log[2].op = "read" /\ bus_log[2].addr = \h07FF /\ bus_log[2].result = \hFF

\* C14: a write to any address in 0x8000 .. 0xFFFF is fatal: it does not
\* return normally, and it changes no byte of the work memory or of the
\* program storage.
C14_RomWriteFatal ==
    \A i \in Accesses :
        LET w == bus_log[i]
        IN  /\ (w.op = "write" /\ w.addr \in \h8000 .. \hFFFF) =>
                   /\ w.result = PANIC
                   /\ w.post.cpu_vram = w.pre.cpu_vram
                   /\ w.post.rom = w.pre.rom
                   /\ i = Len(bus_log)
            /\ w.result = PANIC => (w.op = "write" /\ w.addr \in \h8000 .. \hFFFF)

\* A write to 0xFFFF after a write to the work memory panicked
C14_Witness ==
    /\ Len(bus_log) = 2
    /\ bus_log[1].op = "write" /\ bus_log[1].addr = \h0001
    /\ bus_log[2].op = "write" /\ bus_log[2].addr = \hFFFF
    /\ bus_log[2].result = PANIC
    /\ bus.cpu_vram = bus_log[1].post.cpu_vram
    /\ Bus_mem_read([bus EXCEPT !.panicked = FALSE], \h0801) = bus_log[1].data

PeripheralOrUnmapped == \h2000 .. \h7FFF

\* C15: a read of any address in 0x2000 .. 0x3FFF or 0x4000 .. 0x7FFF returns
\* 0, and a write there returns normally and leaves the work memory and the
\* program storage unchanged, whatever was written there before.
C15_WindowReadsZero ==
    /\ Len(bus_log) <= 1 =>
           \A b \in PeripheralOrUnmapped : Bus_mem_read(bus, b) = 0
    /\ \A b \in BusAddrs \cap PeripheralOrUnmapped : Bus_mem_read(bus, b) = 0
    /\ \A i \in Accesses :
           LET w == bus_log[i]
           IN  w.addr \in PeripheralOrUnmapped =>
                   /\ w.result = 0
                   /\ w.post.cpu_vram = w.pre.cpu_vram
                   /\ w.post.rom = w.pre.rom
                   /\ ~w.post.panicked

\* 0x5A was written to 0x2000 and the read of 0x2008, its mirror, returned 0
C15_Witness ==
    /\ Len(bus_log) = 2
    /\ bus_log[1].op = "write" /\ bus_log[1].addr = \h2000 /\ bus_log[1].data = \h5A
    /\ bus_log[2].op = "read" /\ bus_log[2].addr = \h2008 /\ bus_log[2].result = 0

\* C16: with a program storage of exactly 0x4000 bytes a read of 0x8000 + k
\* and a read of 0xC000 + k both return byte k, for every k in 0 .. 0x3FFF;
\* with 0x8000 bytes a read of 0x8000 + k returns byte k for every k in
\* 0 .. 0x7FFF.  Stated at every k on the new Bus, and on every read made.
C16_ProgramStorageMirror ==
    /\ (Len(bus_log) = 0 /\ bus.rom.prg_rom_len = \h4000) =>
           \A k \in 0 .. \h3FFF :
               /\ Bus_mem_read(bus, \h8000 + k) = prg_byte(bus.rom, k)
               /\ Bus_mem_read(bus, \hC000 + k) = prg_byte(bus.rom, k)
    /\ (Len(bus_log) = 0 /\ bus.rom.prg_rom_len = \h8000) =>
           \A k \in 0 .. \h7FFF : Bus_mem_read(bus, \h8000 + k) = prg_byte(bus.rom, k)
    /\ \A i \in Accesses :
           LET r == bus_log[i]
           IN  (r.op = "read" /\ r.addr >= \h8000) =>
                   r.result = prg_byte(r.pre.rom,
                                       IF r.pre.rom.prg_rom_len = \h4000
                                       THEN (r.addr - \h8000) % \h4000
                                       ELSE r.addr - \h8000)

\* Over 16K, 0xC001 read byte 1; over 32K it read byte 0x4001, another byte
C16_Witness ==
    /\ Len(bus_log) = 2
    /\ bus_log[1].op = "read" /\ bus_log[1].addr = \hC001
    /\ bus_log[2].op = "read" /\ bus_log[2].addr = \h8001
    /\ bus.rom.prg_rom_len = \h4000
    /\ bus_log[1].result = bus_log[2].result
    /\ bus_log[1].result = prg_byte(bus.rom, 1)
    /\ prg_byte(bus.rom, 1) # prg_byte(bus.rom, \h4001)

-----------------------------------------------------------------------------
(* Compares: CMP immediate over every register and operand value, CPX and   *)
(* CPY and the zero-page forms over values at the ends and in the middle    *)

CmpCodes == {\hC9, \hC5, \hD5, \hCD, \hDD, \hD9, \hC1, \hD1}
CpxCodes == {\hE0, \hE4, \hEC}
CpyCodes == {\hC0, \hC4, \hCC}
CompareCodes == CmpCodes \cup CpxCodes \cup CpyCodes

CompareSamples == {\h00, \h01, \h40, \h7F, \h80, \hFF}

\* No flag set but Break2 and Interrupt-Disable / every flag set but Break
CompareStatus == {POWER_ON_STATUS, \hEF}

InitCompareAll ==
    \E r \in Byte, m \in Byte, p \in CompareStatus :
        Harness(poke(seed(new(TRUE), r, \h11, \h22, p, STACK_RESET, LOAD_ADDR),
                     LOAD_ADDR, << \hC9, m >>))

InitCompareSampled ==
    \E op \in {\hC5, \hE0, \hE4, \hC0, \hC4}, a \in {\h33, \h80},
       r \in CompareSamples, m \in CompareSamples, p \in CompareStatus :
        LET c0 == seed(new(TRUE), a, r, r, p, STACK_RESET, LOAD_ADDR)
            c1 == IF OpMode(op) = "Immediate" THEN poke(c0, LOAD_ADDR, << op, m >>)
                  ELSE mem_write(poke(c0, LOAD_ADDR, << op, \h10 >>), \h10, m)
        IN  Harness([c1 EXCEPT !.register_a = IF op = \hC5 THEN r ELSE a])

InitCompare == InitCompareAll \/ InitCompareSampled

NextCompare == Cmp \/ Cpx \/ Cpy \/ Brk

SpecCompare == InitCompare /\ [][NextCompare]_vars

\* The register the compare of step h compares
Compared(h) ==
    IF h.code \in CmpCodes THEN h.pre.register_a
    ELSE IF h.code \in CpxCodes THEN h.pre.register_x
    ELSE h.pre.register_y

\* Flags other than Carry, Zero and Negative
OtherThanCZN(p) == bitand(p, \h7C)

\* C17: a compare of register value r with fetched byte m sets Carry iff
\* m <= r, Zero iff (r - m) mod 256 = 0 and Negative iff bit 7 of
\* (r - m) mod 256 is set, whatever Carry was before, and leaves the
\* registers, the memory and all other flags unchanged.
C17_Compare ==
    \A i \in Steps :
        hist[i].code \in CompareCodes =>
            LET h == hist[i]
                r == Compared(h)
                m == Operand(h)
                d == (r - m) % 256
            IN  /\ Flag(h.post, CARRY) <=> (m <= r)
                /\ Flag(h.post, ZERO) <=> (d = 0)
                /\ Flag(h.post, NEGATIVE) <=> (d >= 128)
                /\ OtherThanCZN(h.post.status) = OtherThanCZN(h.pre.status)
                /\ h.post.register_a = h.pre.register_a
                /\ h.post.register_x = h.pre.register_x
                /\ h.post.register_y = h.pre.register_y
                /\ h.post.stack_pointer = h.pre.stack_pointer
                /\ h.post.memory = h.pre.memory

\* CMP #$81 with A = 0x01 and Carry set before: Carry cleared, Negative set
\* (the difference is 0x80), Overflow and Decimal still set
C17_Witness ==
    /\ Len(hist) = 1
    /\ hist[1].code = \hC9
    /\ hist[1].pre.register_a = \h01
    /\ Operand(hist[1]) = \h81
    /\ hist[1].pre.status = \hEF
    /\ status = \hEC
    /\ register_a = \h01

-----------------------------------------------------------------------------
(* The status byte on the stack: PHP, PLP and RTI over every status value   *)

FlagStack == {STACK_RESET, \h00, \hFE, \hFF}

\* PHP, or PHP; PLP, with every live status
InitPhp ==
    \E p \in Byte, s \in FlagStack, prog \in {<< \h08 >>, << \h08, \h28 >>} :
        Harness(poke(seed(new(TRUE), 0, 0, 0, p, s, LOAD_ADDR), LOAD_ADDR, prog))

\* PLP of every byte v, waiting above the stack pointer
InitPlp ==
    \E v \in Byte, s \in FlagStack, p \in {POWER_ON_STATUS, \hFF} :
        LET c0 == seed(new(TRUE), 0, 0, 0, p, s, LOAD_ADDR)
            c1 == mem_write(c0, STACK + ((s + 1) % 256), v)
        IN  Harness(poke(c1, LOAD_ADDR, << \h28 >>))

InterruptedAt == {\h0000, \h00FF, \h0601, \h1234, \hFFFE}

\* RTI with a status byte v and a return address above the stack pointer
InitRti ==
    \E v \in Byte, s \in FlagStack, t \in InterruptedAt :
        LET c0 == seed(new(TRUE), 0, 0, 0, POWER_ON_STATUS, s, LOAD_ADDR)
            c1 == mem_write(c0, STACK + ((s + 1) % 256), v)
            c2 == mem_write(c1, STACK + ((s + 2) % 256), Lo(t))
            c3 == mem_write(c2, STACK + ((s + 3) % 256), Hi(t))
        IN  Harness(poke(c3, LOAD_ADDR, << \h40 >>))

InitFlags == InitPhp \/ InitPlp \/ InitRti

NextFlags == Php \/ Plp \/ Rti \/ Brk

SpecFlags == InitFlags /\ [][NextFlags]_vars

\* The byte at offset k above the stack pointer step h started with
Stacked(h, k) == mem_read(h.pre, STACK + ((h.pre.stack_pointer + k) % 256))

\* Byte v with Break cleared and Break2 set
Restored(v) == bitor(bitand(v, \hEF), \h20)

\* C18: PHP writes to the stack the live status with Break and Break2 set
\* and leaves the live status unchanged; PLP sets the live status to the
\* popped byte with Break cleared and Break2 set, the six other bits as popped.
C18_PushPopFlags ==
    \A i \in Steps :
        LET h == hist[i]
        IN  /\ h.code = \h08 =>
                   /\ mem_read(h.post, STACK + h.pre.stack_pointer) =
                          bitor(h.pre.status, \h30)
                   /\ h.post.status = h.pre.status
            /\ h.code = \h28 =>
                   /\ h.post.status = Restored(Stacked(h, 1))
                   /\ bitand(h.post.status, \hCF) = bitand(Stacked(h, 1), \hCF)
                   /\ ~Flag(h.post, BREAK)
                   /\ Flag(h.post, BREAK_2)

\* PHP with status 0xC3 pushed 0xF3 and kept 0xC3 live; PLP then made it 0xE3
C18_Witness ==
    /\ Len(hist) = 2
    /\ hist[1].code = \h08 /\ hist[2].code = \h28
    /\ hist[1].pre.status = \hC3
    /\ mem_read(hist[1].post, STACK + hist[1].pre.stack_pointer) = \hF3
    /\ hist[1].post.status = \hC3
    /\ status = \hE3

\* C19: RTI pops one byte into the status with Break cleared and Break2 set,
\* then pops a 16-bit value, low byte first, and sets the program counter to
\* exactly that value, with no + 1; the stack pointer ends 3 higher mod 256.
C19_ReturnFromInterrupt ==
    \A i \in Steps :
        LET h == hist[i]
        IN  h.code = \h40 =>
                /\ h.post.status = Restored(Stacked(h, 1))
                /\ h.post.program_counter = Stacked(h, 2) + 256 * Stacked(h, 3)
                /\ h.mid.program_counter = h.post.program_counter
                /\ h.post.stack_pointer = (h.pre.stack_pointer + 3) % 256
                /\ h.post.memory = h.pre.memory
                /\ h.post.register_a = h.pre.register_a
                /\ h.post.register_x = h.pre.register_x
                /\ h.post.register_y = h.pre.register_y

\* RTI from stack pointer 0xFE, whose pops wrap to 0x0100 and 0x0101, with
\* status byte 0xDF: back at 0x0601, the address after the RTI itself
C19_Witness ==
    /\ Len(hist) = 1
    /\ hist[1].code = \h40
    /\ hist[1].pre.stack_pointer = \hFE
    /\ Stacked(hist[1], 1) = \hDF
    /\ status = \hEF
    /\ program_counter = \h0601
    /\ stack_pointer = \h01

-----------------------------------------------------------------------------
(* LDA immediate of every byte under every status                           *)

InitLoad ==
    \E v \in Byte, p \in Byte :
        LET c0 == seed(new(TRUE), \h55, \h11, \h22, p, STACK_RESET, LOAD_ADDR)
        IN  Harness(mem_write(poke(c0, LOAD_ADDR, << \hA9, v >>), \h10, \h77))

NextLoad == Lda \/ Brk

SpecLoad == InitLoad /\ [][NextLoad]_vars

\* Flags other than Zero and Negative
OtherThanZN(p) == bitand(p, \h7D)

\* C20: for every byte v and every prior status, LDA #v sets A = v, Zero iff
\* v = 0 and Negative iff bit 7 of v is set, and leaves Carry,
\* Interrupt-Disable, Decimal, Break, Break2 and Overflow, the X and Y
\* registers, the stack pointer and the memory unchanged.
C20_LoadImmediate ==
    \A i \in Steps :
        hist[i].code = \hA9 =>
            LET h == hist[i]
                v == mem_read(h.pre, h.pre.program_counter + 1)
            IN  /\ h.post.register_a = v
                /\ Flag(h.post, ZERO) <=> (v = 0)
                /\ Flag(h.post, NEGATIVE) <=> (v >= 128)
                /\ OtherThanZN(h.post.status) = OtherThanZN(h.pre.status)
                /\ \A f \in {CARRY, INTERRUPT_DISABLE, DECIMAL_MODE, BREAK, BREAK_2, OVERFLOW} :
                       Flag(h.post, f) <=> Flag(h.pre, f)
                /\ h.post.register_x = h.pre.register_x
                /\ h.post.register_y = h.pre.register_y
                /\ h.post.stack_pointer = h.pre.stack_pointer
                /\ h.post.memory = h.pre.memory
                /\ h.post.program_counter = h.pre.program_counter + 2

\* LDA #$00 under status 0xFD (all but Zero): Zero set, Negative cleared,
\* Carry and the others kept
C20_Witness ==
    /\ Len(hist) = 1
    /\ hist[1].code = \hA9
    /\ hist[1].pre.status = \hFD
    /\ hist[1].pre.register_a = \h55
    /\ register_a = \h00
    /\ status = \h7F
    /\ mem_read(Cpu, \h10) = \h77

-----------------------------------------------------------------------------
(* Increments and decrements of X, Y and a zero-page byte, over every value *)

RegisterStepCodes == {\hE8, \hC8, \hCA, \h88}
IncCodes == {\hE6, \hF6, \hEE, \hFE}
DecCodes == {\hC6, \hD6, \hCE, \hDE}
StepCodes == RegisterStepCodes \cup IncCodes \cup DecCodes

\* INX, INY, DEX, DEY of every value v of the register, INC $10 and DEC $10
\* of every value v of the byte; the other register and the accumulator
\* hold other values
InitIncDec ==
    \E op \in RegisterStepCodes \cup {\hE6, \hC6}, v \in Byte, p \in {POWER_ON_STATUS, \hEF} :
        LET x  == IF op \in {\hE8, \hCA} THEN v ELSE \h11
            y  == IF op \in {\hC8, \h88} THEN v ELSE \h22
            c0 == seed(new(TRUE), \h33, x, y, p, STACK_RESET, LOAD_ADDR)
            c1 == poke(c0, LOAD_ADDR, SubSeq(<< op, \h10 >>, 1, OpLen(op)))
        IN  Harness(IF op \in {\hE6, \hC6} THEN mem_write(c1, \h10, v) ELSE c1)

\* INC and DEC through the indexed and absolute modes, at the ends of the range
InitIncDecIndexed ==
    \E op \in {\hF6, \hEE, \hFE, \hD6, \hCE, \hDE}, v \in {\h00, \h01, \h7F, \h80, \hFF},
       x \in {\h00, \hF8} :
        LET c0 == seed(new(TRUE), \h33, x, \h22, POWER_ON_STATUS, STACK_RESET, LOAD_ADDR)
            c1 == poke(c0, LOAD_ADDR, SubSeq(<< op, \h10, \h02 >>, 1, OpLen(op)))
            at == IF OpLen(op) = 2 THEN (\h10 + x) % 256
                  ELSE IF op \in {\hEE, \hCE} THEN \h0210 ELSE \h0210 + x
        IN  Harness(mem_write(c1, at, v))

InitStep == InitIncDec \/ InitIncDecIndexed

NextStep == Inx \/ Iny \/ Dex \/ Dey \/ Inc \/ Dec \/ Brk

SpecStep == InitStep /\ [][NextStep]_vars

\* The value the instruction of step h works on, in processor c
Stepped(h, c) ==
    IF h.code \in {\hE8, \hCA} THEN c.register_x
    ELSE IF h.code \in {\hC8, \h88} THEN c.register_y
    ELSE mem_read(c, get_operand_address(Decoded(h), OpMode(h.code)))

Increments == {\hE8, \hC8} \cup IncCodes

\* C21: INX, INY, DEX, DEY, INC and DEC add or subtract one modulo 256 and
\* recompute Zero and Negative from the result: 0xFF incremented is 0x00
\* with Zero set and Negative clear, 0x00 decremented is 0xFF with Zero
\* clear and Negative set; Carry and Overflow (and the other flags, the
\* other registers and the rest of the memory) are unchanged.
C21_IncrementDecrement ==
    \A i \in Steps :
        hist[i].code \in StepCodes =>
            LET h      == hist[i]
                old    == Stepped(h, h.pre)
                result == Stepped(h, h.post)
            IN  /\ result = IF h.code \in Increments THEN (old + 1) % 256
                            ELSE (old + 255) % 256
                /\ (h.code \in Increments /\ old = \hFF) =>
                       (result = \h00 /\ Flag(h.post, ZERO) /\ ~Flag(h.post, NEGATIVE))
                /\ (h.code \notin Increments /\ old = \h00) =>
                       (result = \hFF /\ ~Flag(h.post, ZERO) /\ Flag(h.post, NEGATIVE))
                /\ Flag(h.post, ZERO) <=> (result = 0)
                /\ Flag(h.post, NEGATIVE) <=> (result >= 128)
                /\ bitand(h.post.status, \h7D) = bitand(h.pre.status, \h7D)
                /\ h.post.register_a = h.pre.register_a
                /\ h.code \notin {\hE8, \hCA} => h.post.register_x = h.pre.register_x
                /\ h.code \notin {\hC8, \h88} => h.post.register_y = h.pre.register_y
                /\ h.post.stack_pointer = h.pre.stack_pointer
                /\ IF h.code \in RegisterStepCodes THEN h.post.memory = h.pre.memory
                   ELSE h.post.memory =
                            store(h.pre.memory,
                                  get_operand_address(Decoded(h), OpMode(h.code)), result)

\* INX of 0xFF with Carry, Overflow and Negative set before: X = 0x00, Zero
\* set, Negative cleared, Carry and Overflow kept
C21_Witness ==
    /\ Len(hist) = 1
    /\ hist[1].code = \hE8
    /\ hist[1].pre.register_x = \hFF
    /\ hist[1].pre.status = \hEF
    /\ register_x = \h00
    /\ status = \h6F

-----------------------------------------------------------------------------
(* The calls an embedder makes on the CPU outside the loop: load, reset,    *)
(* run and load_and_run, on processors in any state                         *)

\* The most calls made on a processor
MaxCalls == 4

\* The variables hold processor post after a call that is not the loop
Install(post) ==
    /\ register_a'      = post.register_a
    /\ register_x'      = post.register_x
    /\ register_y'      = post.register_y
    /\ status'          = post.status
    /\ program_counter' = post.program_counter
    /\ stack_pointer'   = post.stack_pointer
    /\ memory'          = post.memory

\* The entry of calls for one call: at is the number of instructions executed before it
Call(name, arg, result, pre, post) ==
    [call |-> name, arg |-> arg, result |-> result, pre |-> pre, post |-> post,
     at |-> Len(hist)]

\* A call can be made when the loop is not running and nothing has panicked
Callable == run_state \in {"idle", "halted"}

\* The programs of the tests of mod.rs
Programs ==
    { << \hA9, \hFF, \hAA, \hE8, \hE8, \h00 >>,
      << \hA9, \h0A, \hAA, \hE8, \h00 >>,
      << \hA5, \h10, \h00 >> }

\* cpu.reset()
Reset ==
    /\ Callable
    /\ Len(calls) < MaxCalls
    /\ LET post == reset(Cpu)
       IN  /\ Install(post)
           /\ run_state' = IF post.panicked THEN "panicked" ELSE "idle"
           /\ calls' = Append(calls, Call("reset", << >>, 0, Cpu, post))
    /\ UNCHANGED << overflow_checks, observed, hist, stack_touched, bus_vars >>

\* cpu.load(program)
Load ==
    /\ Callable
    /\ Len(calls) < MaxCalls
    /\ \E program \in Programs :
           LET post == load(Cpu, program)
           IN  /\ Install(post)
               /\ run_state' = IF post.panicked THEN "panicked" ELSE "idle"
               /\ calls' = Append(calls, Call("load", program, 0, Cpu, post))
    /\ UNCHANGED << overflow_checks, observed, hist, stack_touched, bus_vars >>

\* cpu.run(): the loop is entered; its turns are the actions of the arms
Run ==
    /\ Callable
    /\ Len(calls) < MaxCalls
    /\ run_state' = "running"
    /\ calls' = Append(calls, Call("run", << >>, 0, Cpu, Cpu))
    /\ UNCHANGED << register_a, register_x, register_y, status, program_counter,
                    stack_pointer, memory, overflow_checks, observed, hist,
                    stack_touched, bus_vars >>

\* cpu.load_and_run(program): load, reset, run
LoadAndRun ==
    /\ Callable
    /\ Len(calls) + 3 <= MaxCalls
    /\ \E program \in Programs :
           LET loaded == load(Cpu, program)
               post   == IF loaded.panicked THEN loaded ELSE reset(loaded)
           IN  /\ Install(post)
               /\ run_state' = IF post.panicked THEN "panicked" ELSE "running"
               /\ calls' = calls \o << Call("load", program, 0, Cpu, loaded),
                                       Call("reset", << >>, 0, loaded, post),
                                       Call("run", << >>, 0, post, post) >>
    /\ UNCHANGED << overflow_checks, observed, hist, stack_touched, bus_vars >>

\* The variables hold processor c, which an embedder owns: no loop is running
Owned(c) ==
    /\ register_a      = c.register_a
    /\ register_x      = c.register_x
    /\ register_y      = c.register_y
    /\ status          = c.status
    /\ stack_pointer   = c.stack_pointer
    /\ program_counter = c.program_counter
    /\ memory          = c.memory
    /\ overflow_checks = c.overflow_checks
    /\ run_state       = "idle"
    /\ observed        = << >>
    /\ hist            = << >>
    /\ stack_touched   = {}
    /\ bus             = Bus_new(Cartridge(\h4000), c.overflow_checks)
    /\ bus_log         = << >>
    /\ calls           = << >>

\* The vectors a processor is constructed with: the one of new(), the one
\* load writes, one in the zeroed memory, and the last address
Vectors == { << \h00, \h00 >>, << \h00, \h06 >>, << \h34, \h12 >>, << \hFF, \hFF >> }

\* A new processor, or one with every register and flag changed; 0x55 at
\* 0x0010 or not; a byte just past the longest program; a reset vector
InitEmbed ==
    \E fresh \in BOOLEAN, data \in {\h00, \h55}, v \in Vectors :
        LET c0 == IF fresh THEN new(TRUE)
                  ELSE seed(new(TRUE), \h33, \h11, \h22, \hEF, \h00, \h1234)
            c1 == mem_write(mem_write(c0, \h0010, data), \h0606, \hE8)
            c2 == poke(c1, RESET_VECTOR, v)
        IN  Owned(c2)

NextEmbed ==
    \/ Load \/ Reset \/ Run \/ LoadAndRun
    \/ Lda \/ Tax \/ Inx \/ Brk \/ Fatal

SpecEmbed == InitEmbed /\ [][NextEmbed]_vars

\* C22: reset, from any state, sets A, X and Y to 0, the status to 0x24,
\* the stack pointer to 0xFD and the program counter to the little-endian
\* word at 0xFFFC / 0xFFFD, and changes no memory.
C22_Reset ==
    \A i \in 1 .. Len(calls) :
        calls[i].call = "reset" =>
            LET pre  == calls[i].pre
                post == calls[i].post
            IN  /\ ~post.panicked
                /\ post.register_a = 0
                /\ post.register_x = 0
                /\ post.register_y = 0
                /\ post.status = \h24
                /\ post.stack_pointer = \hFD
                /\ post.program_counter =
                       mem_read(pre, \hFFFC) + 256 * mem_read(pre, \hFFFD)
                /\ post.memory = pre.memory

\* A program was loaded and run to its BRK, which left A = 0xFF, X = 0x01,
\* Zero and Negative off the power-on value and the program counter past
\* the BRK; then reset: the registers are the reset ones, the program
\* counter is the vector load wrote
C22_Witness ==
    /\ Len(calls) = 4
    /\ calls[4].call = "reset"
    /\ calls[4].pre.register_a = \hFF
    /\ calls[4].pre.register_x = \h01
    /\ calls[4].pre.program_counter = \h0606
    /\ calls[4].at = 4
    /\ register_a = 0 /\ register_x = 0 /\ status = \h24
    /\ program_counter = \h0600
    /\ run_state = "idle"


\* The addresses load(program) writes: the program's bytes and the reset vector
LoadedRange(program) ==
    (LOAD_ADDR .. LOAD_ADDR + Len(program) - 1) \cup {RESET_VECTOR, RESET_VECTOR + 1}

\* C23: load, then reset, then run executes the program from 0x0600 with
\* the register state reset leaves, and keeps the memory seeded before
\* outside the loaded range and the reset vector; [A9 FF AA E8 E8 00]
\* halts with X = 0x01, [A9 0A AA E8 00] halts with X = 0x0B, and
\* [A5 10 00] with 0x55 at 0x0010 halts with A = 0x55.
C23_LoadResetRun ==
    LET n == Len(calls)
    IN  (/\ n >= 3
         /\ calls[n - 2].call = "load"
         /\ calls[n - 1].call = "reset"
         /\ calls[n].call = "run") =>
            LET program == calls[n - 2].arg
                before  == calls[n - 2].pre
                entered == calls[n].post
            IN  /\ entered.program_counter = \h0600
                /\ entered.register_a = 0 /\ entered.register_x = 0
                /\ entered.register_y = 0 /\ entered.status = \h24
                /\ entered.stack_pointer = \hFD
                /\ Len(hist) > calls[n].at => hist[calls[n].at + 1].pre = entered
                /\ \A a \in (DOMAIN memory \cup DOMAIN before.memory) \ LoadedRange(program) :
                       mem_read(Cpu, a) = mem_read(before, a)
                /\ \A k \in 1 .. Len(program) :
                       mem_read(Cpu, \h0600 + k - 1) = program[k]
                /\ run_state = "halted" =>
                       /\ program = << \hA9, \hFF, \hAA, \hE8, \hE8, \h00 >> =>
                              register_x = \h01
                       /\ program = << \hA9, \h0A, \hAA, \hE8, \h00 >> =>
                              register_x = \h0B
                       /\ (program = << \hA5, \h10, \h00 >> /\ mem_read(before, \h0010) = \h55) =>
                              register_a = \h55

\* [A9 FF AA E8 E8 00] loaded on a processor whose registers, flags, stack
\* pointer and program counter were all changed, reset, run to the BRK:
\* X = 0x01, and the bytes seeded at 0x0010 and 0x0606 are still there
C23_Witness ==
    /\ Len(calls) = 3
    /\ calls[1].call = "load" /\ calls[2].call = "reset" /\ calls[3].call = "run"
    /\ calls[1].arg = << \hA9, \hFF, \hAA, \hE8, \hE8, \h00 >>
    /\ calls[1].pre.register_x = \h11
    /\ calls[1].pre.program_counter = \h1234
    /\ run_state = "halted"
    /\ Len(hist) = 4
    /\ register_x = \h01
    /\ mem_read(Cpu, \h0010) = \h55
    /\ mem_read(Cpu, \h0606) = \hE8

-----------------------------------------------------------------------------
(* Decoding: every byte as the first opcode, a byte without descriptor      *)
(* after every two-byte instruction                                         *)

\* Every byte b as the opcode at 0x0600, followed by 0x10 and by 0x02,
\* which has no descriptor
InitDecode ==
    \E op \in Byte, checks \in BOOLEAN :
        LET c0 == seed(new(checks), \h80, \h01, \hFF, POWER_ON_STATUS, STACK_RESET, LOAD_ADDR)
        IN  Harness(poke(c0, LOAD_ADDR, << op, \h10, \h02 >>))

SpecDecode == InitDecode /\ [][Next]_vars

\* The loop is about to fetch a byte that has no descriptor or no arm
Undecodable ==
    /\ run_state = "running"
    /\ Fetched # PANIC
    /\ Fetched \notin OPCODES

\* C24: when the loop fetches a byte that has no descriptor or no handler,
\* the run ends in a fatal failure, which is not the normal halt: no
\* handler runs for the byte (registers, flags, stack pointer and memory
\* stay as they were), the observer is not called for it, and the loop
\* never goes on to a next instruction.
C24_UnknownOpcodeFatal ==
    [][ /\ Undecodable =>
            /\ run_state' = "panicked"
            /\ run_state' # "halted"
            /\ observed' = observed
            /\ hist' = hist
            /\ << register_a, register_x, register_y, status, stack_pointer, memory >>' =
                   << register_a, register_x, register_y, status, stack_pointer, memory >>
        /\ run_state # "panicked" ]_vars

\* LDA #$10 was executed and observed, then 0x02 was fetched at 0x0602: the
\* run has failed with one instruction executed and one observation
C24_Witness ==
    /\ run_state = "panicked"
    /\ Len(hist) = 1 /\ hist[1].code = \hA9
    /\ Len(observed) = 1
    /\ program_counter = \h0603
    /\ mem_read(Cpu, \h0602) = \h02
    /\ register_a = \h10

-----------------------------------------------------------------------------
(* The trace formatter of trace.rs, called on processors about to execute   *)
(* every opcode, and on indirect jumps through pointers at the ends of a    *)
(* page                                                                     *)

\* cpu.get_absolute_address(mode, addr): the operand address of mode for
\* operand bytes at addr instead of at the program counter
get_absolute_address(c, mode, addr) ==
    get_operand_address([c EXCEPT !.program_counter = addr], mode)

\* trace.rs, the jmp_addr of the line of a JMP indirect through addr
jmp_addr(c, addr) ==
    IF bitand(addr, \h00FF) = \h00FF
    THEN LET low  == mem_read(c, addr)
             high == mem_read(c, bitand(addr, \h00FF))
         IN  IF low = PANIC \/ high = PANIC THEN PANIC ELSE high * 256 + low
    ELSE mem_read_u16(c, addr)

\* trace.rs, trace: the part of the line that is read through the operand:
\* the bytes of the instruction, the address and byte the instruction works
\* on, and the target a branch or jump is rendered with; panicked when a
\* read, an addition or the lookup of the opcode panics
trace_operand(c) ==
    LET start == c.program_counter
        code  == mem_read(c, start)
    IN  IF code = PANIC \/ code \notin OPCODES THEN [panicked |-> TRUE]
        ELSE
        LET mode     == OpMode(code)
            direct   == mode \in {"Immediate", "NoneAddressing"}
            at1      == checked_add_u16(c.overflow_checks, start + 1)
            at2      == checked_add_u16(c.overflow_checks, start + 2)
            mem_addr == IF direct THEN 0
                        ELSE IF at1 = PANIC THEN PANIC
                        ELSE get_absolute_address(c, mode, at1)
            stored_value == IF direct THEN 0 ELSE mem_read(c, mem_addr)
            low      == IF OpLen(code) = 1 THEN 0 ELSE mem_read(c, at1)
            high     == IF OpLen(code) < 3 THEN 0 ELSE mem_read(c, at2)
            addr     == IF OpLen(code) < 3 THEN low
                        ELSE IF low = PANIC \/ high = PANIC THEN PANIC
                        ELSE mem_read_u16(c, at1)
            relative == mode = "NoneAddressing" /\ OpLen(code) = 2
            \* the target of a branch is wrapping usize arithmetic, which never
            \* panics: a negative value stands for itself plus 2^64
            target   == IF mode # "NoneAddressing" \/ OpLen(code) = 1 \/ addr = PANIC THEN 0
                        ELSE IF relative THEN start + 2 + as_i8(addr)
                        ELSE IF code = \h6C THEN jmp_addr(c, addr)
                        ELSE addr
        IN  IF \/ PANIC \in {mem_addr, stored_value, low, high, addr}
               \/ (~relative /\ target = PANIC)
            THEN [panicked |-> TRUE]
            ELSE [panicked |-> FALSE,
                  hex_dump |-> SubSeq(<< code, low, high >>, 1, OpLen(code)),
                  mem_addr |-> mem_addr, stored_value |-> stored_value,
                  addr |-> addr, target |-> target]

\* A trace that fetches as the loop does, and leaves the program counter
\* after the opcode
Trace_advances ==
    /\ run_state \in {"idle", "running", "halted"}
    /\ Len(calls) < MaxCalls
    /\ LET operand == trace_operand(Cpu)
           result  == [panicked |-> operand.panicked, line |-> trace(Cpu),
                       operand |-> operand]
           post    == [Cpu EXCEPT !.program_counter = wrap16(@ + 1)]
       IN  /\ calls' = Append(calls, Call("trace", << >>, result, Cpu, post))
           /\ program_counter' = post.program_counter
           /\ run_state' = IF result.panicked THEN "panicked" ELSE run_state
    /\ UNCHANGED << register_a, register_x, register_y, status,
                    stack_pointer, memory, overflow_checks, observed, hist,
                    stack_touched, bus_vars >>

\* trace(cpu), called by an observer or by the embedder: the line is
\* returned, no field of the processor is assigned
Trace ==
    /\ run_state \in {"idle", "running", "halted"}
    /\ Len(calls) < MaxCalls
    /\ LET operand == trace_operand(Cpu)
           result  == [panicked |-> operand.panicked, line |-> trace(Cpu),
                       operand |-> operand]
       IN  /\ calls' = Append(calls, Call("trace", << >>, result, Cpu, Cpu))
           /\ run_state' = IF result.panicked THEN "panicked" ELSE run_state
    /\ UNCHANGED << register_a, register_x, register_y, status, program_counter,
                    stack_pointer, memory, overflow_checks, observed, hist,
                    stack_touched, bus_vars >>

\* c with byte b at address at, when the array has that address
seeded(c, at, b) == IF at < MEMORY_LEN THEN mem_write(c, at, b) ELSE c

\* One instruction of every opcode at 0x0600, then 0x02
InitTraceAll ==
    \E op \in OPCODES, checks \in BOOLEAN :
        LET c0 == seed(new(checks), \h80, \h01, \hFF, POWER_ON_STATUS, STACK_RESET, LOAD_ADDR)
        IN  Harness(poke(c0, LOAD_ADDR, << op, \h10, \h02 >>))

\* JMP (ptr) at 0x0600 for pointers at the start, inside and at the end of
\* a page: 0x34 at ptr, 0x12 at ptr + 1, 0x56 at the start of the page of
\* ptr and 0x78 at 0x00FF
InitTraceJump ==
    \E lo \in {\h00, \h10, \hFE, \hFF}, hi \in {\h00, \h02, \hFF} :
        LET ptr == hi * 256 + lo
            c0  == seed(new(TRUE), \h80, \h01, \hFF, POWER_ON_STATUS, STACK_RESET, LOAD_ADDR)
            c1  == poke(c0, LOAD_ADDR, << \h6C, lo, hi >>)
            c2  == seeded(seeded(c1, \h00FF, \h78), hi * 256, \h56)
            c3  == seeded(seeded(c2, ptr + 1, \h12), ptr, \h34)
        IN  Harness(c3)

InitTrace == InitTraceAll \/ InitTraceJump

NextTrace == Trace \/ Next

SpecTrace == InitTrace /\ [][NextTrace]_vars

\* The calls of trace that returned a line
Traced == { i \in 1 .. Len(calls) : calls[i].call = "trace" /\ ~calls[i].result.panicked }

\* C25: for the indirect jump 0x6C, the target the trace line renders is
\* the program counter the engine loads, for every pointer, those with low
\* byte 0xFF included.
C25_TraceJumpTarget ==
    \A i \in Traced :
        calls[i].result.line.code = \h6C =>
            LET pre    == calls[i].pre
                engine == jmp_indirect([pre EXCEPT !.program_counter = pre.program_counter + 1])
            IN  /\ ~engine.panicked
                /\ calls[i].result.operand.target = engine.program_counter


\* This step is a call of trace on a processor whose program counter points
\* at a byte that has a descriptor
TraceOfMapped ==
    /\ Len(calls') = Len(calls) + 1
    /\ calls'[Len(calls')].call = "trace"
    /\ mem_read(Cpu, program_counter) \in OPCODES

\* C26: calling trace on any state whose program counter points at a
\* mapped opcode leaves the registers, the flags, the stack pointer, the
\* program counter and the memory as they were.
C26_TraceReadOnly ==
    [][ TraceOfMapped =>
            /\ << register_a, register_x, register_y, status, stack_pointer,
                  program_counter, memory >>' =
               << register_a, register_x, register_y, status, stack_pointer,
                  program_counter, memory >>
            /\ calls'[Len(calls')].post = calls'[Len(calls')].pre ]_vars

\* INX was executed, then trace was called at 0x0601 on BPL +2 and rendered
\* the target 0x0605: X is still 0x02 and the program counter still 0x0601
C26_Witness ==
    /\ Len(hist) = 1 /\ hist[1].code = \hE8
    /\ Len(calls) = 1 /\ calls[1].call = "trace" /\ calls[1].at = 1
    /\ ~calls[1].result.panicked
    /\ calls[1].result.line.code = \h10
    /\ calls[1].result.operand.target = \h0605
    /\ run_state = "running"
    /\ register_x = \h02
    /\ program_counter = \h0601

-----------------------------------------------------------------------------
(* The status of a processor that was constructed or reset and then         *)
(* executes instructions: every opcode, and every byte pushed by the        *)
(* program and popped as the status                                         *)

\* new(), or reset of a processor whose registers and flags were all changed
Started ==
    { new(checks) : checks \in BOOLEAN }
    \cup { [reset(seed(new(TRUE), \h33, \h11, \h22, \hFF, \h00, \h1234))
               EXCEPT !.program_counter = pc] : pc \in {\h0000, LOAD_ADDR} }

\* One instruction of every opcode, then 0x10 and 0x02
InitStatusAll ==
    \E op \in OPCODES \cup {\h02}, c \in Started :
        Harness(poke([c EXCEPT !.program_counter = LOAD_ADDR], LOAD_ADDR,
                     << op, \h10, \h02 >>))

\* LDA #v, PHA, then PLP or RTI, which pops v as the status
InitStatusPop ==
    \E v \in Byte, pop \in {\h28, \h40}, c \in Started :
        Harness(poke([c EXCEPT !.program_counter = LOAD_ADDR], LOAD_ADDR,
                     << \hA9, v, \h48, pop >>))

InitStatus == InitStatusAll \/ InitStatusPop

SpecStatus == InitStatus /\ [][Next]_vars

\* C27: in every state reached from construction or reset by executing
\* instructions, the live status has Break2 set and Break clear; no
\* instruction, PLP and RTI of an arbitrary popped byte included, leaves
\* another status.
C27_BreakBits ==
    /\ contains(status, BREAK_2)
    /\ ~contains(status, BREAK)
    /\ \A i \in Steps :
           /\ bitand(hist[i].mid.status, BREAK + BREAK_2) = BREAK_2
           /\ bitand(hist[i].post.status, BREAK + BREAK_2) = BREAK_2

\* LDA #$DF, PHA, PLP: the byte popped has Break set and Break2 clear, the
\* status PLP leaves is 0xEF
C27_Witness ==
    /\ Len(hist) = 3
    /\ hist[1].code = \hA9 /\ hist[2].code = \h48 /\ hist[3].code = \h28
    /\ mem_read(Cpu, STACK + \hFD) = \hDF
    /\ stack_pointer = \hFD
    /\ status = \hEF

-----------------------------------------------------------------------------
(* The memory of the CPU through its byte and word accessors, at the ends   *)
(* of the address range                                                     *)

\* The most accesses made to the memory of a processor
MaxMemOps == 2

MemAddrs == { \h0000, \h00FF, \h0100, \h7FFF, \hFFFD, \hFFFE, \hFFFF }

InitMem ==
    \E checks \in BOOLEAN : Owned(new(checks))

\* A memory access can be made while nothing has panicked
Accessible ==
    /\ run_state = "idle"
    /\ Len(calls) < MaxMemOps

\* cpu.mem_read(addr)
MemRead ==
    /\ Accessible
    /\ \E addr \in MemAddrs :
           LET result == mem_read(Cpu, addr)
           IN  /\ calls' = Append(calls, Call("mem_read", << addr >>, result, Cpu,
                                              IF result = PANIC THEN Panic(Cpu) ELSE Cpu))
               /\ run_state' = IF result = PANIC THEN "panicked" ELSE "idle"
    /\ UNCHANGED << register_a, register_x, register_y, status, program_counter,
                    stack_pointer, memory, overflow_checks, observed, hist,
                    stack_touched, bus_vars >>

\* cpu.mem_write(addr, data)
MemWrite ==
    /\ Accessible
    /\ \E addr \in MemAddrs, data \in {\h5A} :
           LET post == mem_write(Cpu, addr, data)
           IN  /\ memory' = post.memory
               /\ calls' = Append(calls, Call("mem_write", << addr, data >>,
                                              IF post.panicked THEN PANIC ELSE 0, Cpu, post))
               /\ run_state' = IF post.panicked THEN "panicked" ELSE "idle"
    /\ UNCHANGED << register_a, register_x, register_y, status, program_counter,
                    stack_pointer, overflow_checks, observed, hist,
                    stack_touched, bus_vars >>

\* cpu.mem_read_u16(pos)
MemReadU16 ==
    /\ Accessible
    /\ \E pos \in MemAddrs :
           LET result == mem_read_u16(Cpu, pos)
           IN  /\ calls' = Append(calls, Call("mem_read_u16", << pos >>, result, Cpu,
                                              IF result = PANIC THEN Panic(Cpu) ELSE Cpu))
               /\ run_state' = IF result = PANIC THEN "panicked" ELSE "idle"
    /\ UNCHANGED << register_a, register_x, register_y, status, program_counter,
                    stack_pointer, memory, overflow_checks, observed, hist,
                    stack_touched, bus_vars >>

\* cpu.mem_write_u16(pos, data)
MemWriteU16 ==
    /\ Accessible
    /\ \E pos \in MemAddrs, data \in {\hA5C3} :
           LET post == mem_write_u16(Cpu, pos, data)
           IN  /\ memory' = post.memory
               /\ calls' = Append(calls, Call("mem_write_u16", << pos, data >>,
                                              IF post.panicked THEN PANIC ELSE 0, Cpu, post))
               /\ run_state' = IF post.panicked THEN "panicked" ELSE "idle"
    /\ UNCHANGED << register_a, register_x, register_y, status, program_counter,
                    stack_pointer, overflow_checks, observed, hist,
                    stack_touched, bus_vars >>

NextMem == MemRead \/ MemWrite \/ MemReadU16 \/ MemWriteU16

SpecMem == InitMem /\ [][NextMem]_vars

\* C28: mem_read and mem_write succeed for every address 0x0000 .. 0xFFFF,
\* mem_read_u16 and mem_write_u16 for every address whose second byte,
\* address + 1, is in that range; a byte written is the byte read back, a
\* word written is the word read back, its low byte at the address and its
\* high byte at address + 1.
C28_MemoryAccess ==
    \A i \in 1 .. Len(calls) :
        LET m    == calls[i]
            addr == m.arg[1]
        IN  /\ (m.call \in {"mem_read", "mem_write"} /\ addr \in \h0000 .. \hFFFF) =>
                   m.result # PANIC
            /\ (m.call \in {"mem_read_u16", "mem_write_u16"} /\ addr + 1 \in \h0000 .. \hFFFF) =>
                   m.result # PANIC
            /\ (m.call = "mem_write" /\ m.result # PANIC) =>
                   mem_read(m.post, addr) = m.arg[2]
            /\ (m.call = "mem_write_u16" /\ m.result # PANIC) =>
                   /\ mem_read_u16(m.post, addr) = m.arg[2]
                   /\ mem_read(m.post, addr) = m.arg[2] % 256
                   /\ mem_read(m.post, addr + 1) = m.arg[2] \div 256
            /\ (i < Len(calls) /\ m.call = "mem_write" /\ m.result # PANIC
                    /\ calls[i + 1].call = "mem_read" /\ calls[i + 1].arg[1] = addr) =>
                   calls[i + 1].result = m.arg[2]
            /\ (i < Len(calls) /\ m.call = "mem_write_u16" /\ m.result # PANIC
                    /\ calls[i + 1].call = "mem_read_u16" /\ calls[i + 1].arg[1] = addr) =>
                   calls[i + 1].result = m.arg[2]

=============================================================================
